---- MODULE Spec2Model ----
(***************************************************************************)
(* Model of the doc-processor MCP server                                   *)
(* (src/implementations/doc-processor/src/index.ts).                       *)
(*                                                                         *)
(* Text is modelled as a sequence of one-character strings, so that        *)
(* split, trim, the regular expressions and join are computed character    *)
(* by character as the code computes them.                                 *)
(*                                                                         *)
(* Four specifications share the module:                                   *)
(*   Spec        the tool-call dispatcher and the two conversion handlers, *)
(*               several calls interleaved at their await points;          *)
(*   SpecNorm    preprocessMarkdown, one loop iteration per step;          *)
(*   SpecInline  parseInlineContent, one loop iteration per step;          *)
(*   SpecRender  the token loop of createWordDoc and processNestedList,    *)
(*               one token, list item or nested token per step.            *)
(***************************************************************************)
EXTENDS Integers, Sequences, FiniteSets, TLC

VARIABLES
    \* ---- preprocessMarkdown (index.ts:477-519)
    markdown,               \* the argument
    lines,                  \* markdown.split('\n')
    lineI,                  \* the loop variable i
    currentMainListItem,    \* number | null
    processingNestedList,   \* boolean
    resultLines,            \* string[]
    processedMarkdown,      \* the return value
    reprocessed,            \* preprocessMarkdown applied to the return value
    normPc,                 \* "idle", "loop", "returned" or "again"
    \* ---- parseInlineContent (index.ts:403-475)
    content,                \* the argument
    charI,                  \* the loop variable i (1-based here)
    currentText,
    isStrong,
    isEm,
    isDel,
    isCode,
    runs,                   \* TextRun[]
    inlinePc,               \* "idle", "scan" or "returned"
    \* ---- the tool calls (index.ts:163-241, 521-532, 674-702)
    request,                \* per call: request.params (name, arguments)
    pc,                     \* per call: the await the call is suspended at
    doc,                    \* per call: the Document createWordDoc returned
    buffer,                 \* per call: the bytes Packer.toBuffer returned
    response,               \* per call: the result returned or the error thrown
    steps,                  \* per call: the pipeline steps invoked, in order
    failure,                \* per call: the error a pipeline step raised
    wrote,                  \* per call: what its fs.writeFile left at the path
    markedOptions,          \* the tokenizer's global options (marked.use)
    files,                  \* the file system: path -> file
    dirs,                   \* the file system: the directories
    \* ---- the block renderer (index.ts:326-371, 531-682)
    tokens,                 \* the token stream marked.lexer returned
    tokenI,                 \* the position of the loop 'for (const token of tokens)'
    children,               \* (Paragraph | Table)[], the block accumulator
    frames,                 \* the activations of processNestedList, innermost last
    document,               \* the Document createWordDoc returns
    renderPc                \* "idle", "loop" or "returned"

normVars == <<markdown, lines, lineI, currentMainListItem, processingNestedList,
              resultLines, processedMarkdown, reprocessed, normPc>>

inlineVars == <<content, charI, currentText, isStrong, isEm, isDel, isCode,
                runs, inlinePc>>

callVars == <<request, pc, doc, buffer, response, steps, failure, wrote,
              markedOptions, files, dirs>>

renderVars == <<tokens, tokenI, children, frames, document, renderPc>>

vars == <<normVars, inlineVars, callVars, renderVars>>

\* null, for a value that is otherwise a one-element sequence
Null == <<>>

(***************************************************************************)
(* Characters and strings                                                  *)
(***************************************************************************)
\* The characters String.prototype.trim removes and \s matches (those of
\* them that occur in the inputs below)
WhiteSpace == {" ", "\t", "\r", "\n"}

\* The characters the regular expression '.' does not match
LineTerminator == {"\n", "\r"}

\* The characters \d matches
Digit == {"0", "1", "2", "3", "4", "5", "6", "7", "8", "9"}

DigitValue(c) ==
    CASE c = "0" -> 0 [] c = "1" -> 1 [] c = "2" -> 2 [] c = "3" -> 3
      [] c = "4" -> 4 [] c = "5" -> 5 [] c = "6" -> 6 [] c = "7" -> 7
      [] c = "8" -> 8 [] c = "9" -> 9

\* parseInt of a string of decimal digits
RECURSIVE parseInt(_)
parseInt(ds) ==
    IF ds = <<>> THEN 0
    ELSE 10 * parseInt(SubSeq(ds, 1, Len(ds) - 1)) + DigitValue(ds[Len(ds)])

\* String.prototype.trim
trim(s) ==
    LET keep == {k \in 1..Len(s) : s[k] \notin WhiteSpace}
    IN  IF keep = {} THEN <<>>
        ELSE LET first == CHOOSE k \in keep : \A m \in keep : k <= m
                 last  == CHOOSE k \in keep : \A m \in keep : k >= m
             IN  SubSeq(s, first, last)

\* String.prototype.split('\n'): always at least one piece
RECURSIVE split(_)
split(s) ==
    LET nl == {k \in 1..Len(s) : s[k] = "\n"}
    IN  IF nl = {} THEN <<s>>
        ELSE LET first == CHOOSE k \in nl : \A m \in nl : k <= m
             IN  <<SubSeq(s, 1, first - 1)>> \o split(SubSeq(s, first + 1, Len(s)))

\* Array.prototype.join('\n')
RECURSIVE join(_)
join(ls) ==
    IF ls = <<>> THEN <<>>
    ELSE IF Len(ls) = 1 THEN ls[1]
    ELSE ls[1] \o <<"\n">> \o join(Tail(ls))

(***************************************************************************)
(* preprocessMarkdown: the two regular expressions                         *)
(***************************************************************************)
\* String.prototype.match returning null (a matched group is never empty)
NoMatch == <<>>

\* trimmedLine.match(/^(\d+)\.\s+\*\*(.+)\*\*$/): the ways the pattern fits,
\* as <<d, w>>: d digits, a dot, w white-space characters, "**", one or more
\* characters other than line terminators, "**" at the end.
MainListFits(t) ==
    {dw \in (1..Len(t)) \X (1..Len(t)) :
        LET d == dw[1]
            w == dw[2]
        IN  /\ d + 1 + w + 2 + 1 + 2 <= Len(t)
            /\ \A k \in 1..d : t[k] \in Digit
            /\ t[d + 1] = "."
            /\ \A k \in (d + 2)..(d + 1 + w) : t[k] \in WhiteSpace
            /\ t[d + w + 2] = "*" /\ t[d + w + 3] = "*"
            /\ \A k \in (d + w + 4)..(Len(t) - 2) : t[k] \notin LineTerminator
            /\ t[Len(t) - 1] = "*" /\ t[Len(t)] = "*"}

\* The match array's group 1 (the digits), or NoMatch for null.  The
\* quantifiers are greedy: the first fit found takes the most digits.
mainListMatch(t) ==
    IF MainListFits(t) = {} THEN NoMatch
    ELSE LET dw == CHOOSE x \in MainListFits(t) :
                       \A y \in MainListFits(t) : y[1] <= x[1]
         IN  SubSeq(t, 1, dw[1])

\* trimmedLine.match(/^-\s+(.+)$/): the ways the pattern fits, as the number
\* w of white-space characters after the dash.
NestedDashFits(t) ==
    {w \in 1..Len(t) :
        /\ 1 + w + 1 <= Len(t)
        /\ t[1] = "-"
        /\ \A k \in 2..(1 + w) : t[k] \in WhiteSpace
        /\ \A k \in (w + 2)..Len(t) : t[k] \notin LineTerminator}

\* The match array's group 1 (the text), or NoMatch for null.  \s+ is
\* greedy: the first fit found takes the most white space.
nestedDashMatch(t) ==
    IF NestedDashFits(t) = {} THEN NoMatch
    ELSE LET w == CHOOSE x \in NestedDashFits(t) :
                      \A y \in NestedDashFits(t) : y <= x
         IN  SubSeq(t, w + 2, Len(t))

(***************************************************************************)
(* preprocessMarkdown: the loop                                            *)
(***************************************************************************)
\* Mutant: two spaces of indentation instead of three
NestedLine_TwoSpaces(text) == <<" ", " ", "-", " ">> \o text

\* The template literal '   - ${nestedDashMatch[1]}'
NestedLine(text) == <<" ", " ", " ", "-", " ">> \o text

\* The loop's state before the first line
NormStart ==
    [currentMainListItem |-> Null, processingNestedList |-> FALSE,
     resultLines |-> <<>>]

\* Mutant: the else branch pushes the trimmed line instead of the line
ProcessLine_PushesTrimmed(st, line) ==
    LET trimmedLine == trim(line)
    IN  IF mainListMatch(trimmedLine) # NoMatch
        THEN [currentMainListItem |-> <<parseInt(mainListMatch(trimmedLine))>>,
              processingNestedList |-> FALSE,
              resultLines |-> Append(st.resultLines, line)]
        ELSE IF nestedDashMatch(trimmedLine) # NoMatch
                /\ st.currentMainListItem # Null
        THEN [currentMainListItem |-> st.currentMainListItem,
              processingNestedList |-> TRUE,
              resultLines |-> Append(st.resultLines,
                                     <<" ", " ", " ", "-", " ">>
                                         \o nestedDashMatch(trimmedLine))]
        ELSE [currentMainListItem |-> st.currentMainListItem,
              processingNestedList |->
                  IF trimmedLine = <<>> THEN FALSE ELSE st.processingNestedList,
              resultLines |-> Append(st.resultLines, trimmedLine)]

\* Mutant: every dash line is indented by three more spaces, whether or not
\* an item number is active
ProcessLine_IndentsEveryDash(st, line) ==
    LET trimmedLine == trim(line)
    IN  IF mainListMatch(trimmedLine) # NoMatch
        THEN [currentMainListItem |-> <<parseInt(mainListMatch(trimmedLine))>>,
              processingNestedList |-> FALSE,
              resultLines |-> Append(st.resultLines, line)]
        ELSE IF nestedDashMatch(trimmedLine) # NoMatch
        THEN [currentMainListItem |-> st.currentMainListItem,
              processingNestedList |-> TRUE,
              resultLines |-> Append(st.resultLines, <<" ", " ", " ">> \o line)]
        ELSE [currentMainListItem |-> st.currentMainListItem,
              processingNestedList |->
                  IF trimmedLine = <<>> THEN FALSE ELSE st.processingNestedList,
              resultLines |-> Append(st.resultLines, line)]

\* Mutant: a blank line clears the active item number with the nested-run flag
ProcessLine_BlankClearsItem(st, line) ==
    LET trimmedLine == trim(line)
    IN  IF mainListMatch(trimmedLine) # NoMatch
        THEN [currentMainListItem |-> <<parseInt(mainListMatch(trimmedLine))>>,
              processingNestedList |-> FALSE,
              resultLines |-> Append(st.resultLines, line)]
        ELSE IF nestedDashMatch(trimmedLine) # NoMatch
                /\ st.currentMainListItem # Null
        THEN [currentMainListItem |-> st.currentMainListItem,
              processingNestedList |-> TRUE,
              resultLines |-> Append(st.resultLines,
                                     NestedLine(nestedDashMatch(trimmedLine)))]
        ELSE [currentMainListItem |->
                  IF trimmedLine = <<>> THEN Null ELSE st.currentMainListItem,
              processingNestedList |->
                  IF trimmedLine = <<>> THEN FALSE ELSE st.processingNestedList,
              resultLines |-> Append(st.resultLines, line)]

\* Mutant: under an active item the line is pushed with three spaces put in
\* front of it, instead of being rewritten from the matched text
ProcessLine_PrependsIndent(st, line) ==
    LET trimmedLine == trim(line)
    IN  IF mainListMatch(trimmedLine) # NoMatch
        THEN [currentMainListItem |-> <<parseInt(mainListMatch(trimmedLine))>>,
              processingNestedList |-> FALSE,
              resultLines |-> Append(st.resultLines, line)]
        ELSE IF nestedDashMatch(trimmedLine) # NoMatch
                /\ st.currentMainListItem # Null
        THEN [currentMainListItem |-> st.currentMainListItem,
              processingNestedList |-> TRUE,
              resultLines |-> Append(st.resultLines,
                                     <<" ", " ", " ">> \o line)]
        ELSE [currentMainListItem |-> st.currentMainListItem,
              processingNestedList |->
                  IF trimmedLine = <<>> THEN FALSE ELSE st.processingNestedList,
              resultLines |-> Append(st.resultLines, line)]

\* One iteration of the for loop on `line`, from the loop state st
ProcessLine(st, line) ==
    LET trimmedLine == trim(line)
    IN  IF mainListMatch(trimmedLine) # NoMatch
        THEN [currentMainListItem |-> <<parseInt(mainListMatch(trimmedLine))>>,
              processingNestedList |-> FALSE,
              resultLines |-> Append(st.resultLines, line)]
        ELSE IF nestedDashMatch(trimmedLine) # NoMatch
                /\ st.currentMainListItem # Null
        THEN [currentMainListItem |-> st.currentMainListItem,
              processingNestedList |-> TRUE,
              resultLines |-> Append(st.resultLines,
                                     NestedLine(nestedDashMatch(trimmedLine)))]
        ELSE [currentMainListItem |-> st.currentMainListItem,
              processingNestedList |->
                  IF trimmedLine = <<>> THEN FALSE ELSE st.processingNestedList,
              resultLines |-> Append(st.resultLines, line)]

RECURSIVE NormLoop(_, _)
NormLoop(st, ls) ==
    IF ls = <<>> THEN st ELSE NormLoop(ProcessLine(st, Head(ls)), Tail(ls))

\* The whole function
preprocessMarkdown(md) == join(NormLoop(NormStart, split(md)).resultLines)

(***************************************************************************)
(* preprocessMarkdown as a state machine: one loop iteration per step      *)
(***************************************************************************)
NormState ==
    [currentMainListItem |-> currentMainListItem,
     processingNestedList |-> processingNestedList,
     resultLines |-> resultLines]

NormIterate ==
    LET st == ProcessLine(NormState, lines[lineI])
    IN  /\ currentMainListItem' = st.currentMainListItem
        /\ processingNestedList' = st.processingNestedList
        /\ resultLines' = st.resultLines
        /\ lineI' = lineI + 1
        /\ UNCHANGED <<markdown, lines, processedMarkdown, reprocessed, normPc>>

\* if (mainListMatch)
NormMainItem ==
    /\ normPc = "loop" /\ lineI <= Len(lines)
    /\ mainListMatch(trim(lines[lineI])) # NoMatch
    /\ NormIterate
    /\ UNCHANGED <<inlineVars, callVars, renderVars>>

\* else if (nestedDashMatch && currentMainListItem !== null)
NormNestedDash ==
    /\ normPc = "loop" /\ lineI <= Len(lines)
    /\ mainListMatch(trim(lines[lineI])) = NoMatch
    /\ nestedDashMatch(trim(lines[lineI])) # NoMatch
    /\ currentMainListItem # Null
    /\ NormIterate
    /\ UNCHANGED <<inlineVars, callVars, renderVars>>

\* else
NormOtherLine ==
    /\ normPc = "loop" /\ lineI <= Len(lines)
    /\ mainListMatch(trim(lines[lineI])) = NoMatch
    /\ ~(nestedDashMatch(trim(lines[lineI])) # NoMatch /\ currentMainListItem # Null)
    /\ NormIterate
    /\ UNCHANGED <<inlineVars, callVars, renderVars>>

\* return resultLines.join('\n')
NormReturn ==
    /\ normPc = "loop" /\ lineI > Len(lines)
    /\ processedMarkdown' = join(resultLines)
    /\ normPc' = "returned"
    /\ UNCHANGED <<markdown, lines, lineI, currentMainListItem,
                   processingNestedList, resultLines, reprocessed>>
    /\ UNCHANGED <<inlineVars, callVars, renderVars>>

\* A second call, on the text the first call returned
NormAgain ==
    /\ normPc = "returned"
    /\ reprocessed' = preprocessMarkdown(processedMarkdown)
    /\ normPc' = "again"
    /\ UNCHANGED <<markdown, lines, lineI, currentMainListItem,
                   processingNestedList, resultLines, processedMarkdown>>
    /\ UNCHANGED <<inlineVars, callVars, renderVars>>

NormIdle ==
    /\ markdown = <<>> /\ lines = <<>> /\ lineI = 1
    /\ currentMainListItem = Null /\ processingNestedList = FALSE
    /\ resultLines = <<>> /\ processedMarkdown = <<>> /\ reprocessed = <<>>
    /\ normPc = "idle"

\* The state on entry to preprocessMarkdown(md)
NormEnter(md) ==
    /\ markdown = md
    /\ lines = split(md)
    /\ lineI = 1
    /\ currentMainListItem = NormStart.currentMainListItem
    /\ processingNestedList = NormStart.processingNestedList
    /\ resultLines = NormStart.resultLines
    /\ processedMarkdown = <<>> /\ reprocessed = <<>>
    /\ normPc = "loop"

(***************************************************************************)
(* parseInlineContent                                                      *)
(***************************************************************************)
\* STYLES.normal (index.ts:77-80); the typeface names are transliterated
StyleNormalFont == "FangSong_GB2312"
StyleNormalSize == 32
CodeFont == "Courier New"
CodeSize == 24

\* The character U+0060 (a TLA+ string cannot hold it)
Backtick == "U+0060"

\* content.slice(i, i + n), i 0-based in the code and 1-based here
Slice(s, k, n) ==
    SubSeq(s, k, IF k + n - 1 <= Len(s) THEN k + n - 1 ELSE Len(s))

\* The loop's state before the first character
InlineStart ==
    [charI |-> 1, currentText |-> <<>>, isStrong |-> FALSE, isEm |-> FALSE,
     isDel |-> FALSE, isCode |-> FALSE, runs |-> <<>>]

\* new TextRun({...}) in addCurrentText
TextRun(st) ==
    [text |-> st.currentText,
     font |-> IF st.isCode THEN CodeFont ELSE StyleNormalFont,
     size |-> IF st.isCode THEN CodeSize ELSE StyleNormalSize,
     color |-> "000000",
     bold |-> st.isStrong,
     italics |-> st.isEm,
     strike |-> st.isDel]

\* Mutant: the run is pushed without the test 'if (currentText)'
addCurrentText_Unguarded(st) ==
    [st EXCEPT !.runs = Append(st.runs, TextRun(st)), !.currentText = <<>>]

\* addCurrentText(): push a run for the pending text, if there is any
addCurrentText(st) ==
    IF st.currentText # <<>>
    THEN [st EXCEPT !.runs = Append(st.runs, TextRun(st)), !.currentText = <<>>]
    ELSE st

\* Which branch of the loop body the character at st.charI takes
InlineBranch(c, st) ==
    LET k == st.charI
    IN  IF c[k] = Backtick THEN "code"
        ELSE IF Slice(c, k, 3) = <<"*", "*", "*">> THEN "strongEm"
        ELSE IF Slice(c, k, 2) = <<"*", "*">> THEN "strong"
        ELSE IF Slice(c, k, 2) = <<"~", "~">> THEN "del"
        ELSE IF c[k] = "*" /\ (k + 1 > Len(c) \/ c[k + 1] # "*") THEN "em"
        ELSE "text"

\* Mutant: 'currentText = content[i]' instead of 'currentText += content[i]'
InlineStep_AssignsText(c, st) ==
    LET b == InlineBranch(c, st)
        f == addCurrentText(st)
    IN  CASE b = "code" ->
                [f EXCEPT !.isCode = ~st.isCode, !.charI = st.charI + 1]
          [] b = "strongEm" ->
                [f EXCEPT !.isStrong = ~st.isStrong, !.isEm = ~st.isEm,
                          !.charI = st.charI + 3]
          [] b = "strong" ->
                [f EXCEPT !.isStrong = ~st.isStrong, !.charI = st.charI + 2]
          [] b = "del" ->
                [f EXCEPT !.isDel = ~st.isDel, !.charI = st.charI + 2]
          [] b = "em" ->
                [f EXCEPT !.isEm = ~st.isEm, !.charI = st.charI + 1]
          [] b = "text" ->
                [st EXCEPT !.currentText = <<c[st.charI]>>,
                           !.charI = st.charI + 1]

\* Mutant: 'i++' instead of 'i += 2' after the bold marker
InlineStep_StrongAdvancesOne(c, st) ==
    LET b == InlineBranch(c, st)
        f == addCurrentText(st)
    IN  CASE b = "code" ->
                [f EXCEPT !.isCode = ~st.isCode, !.charI = st.charI + 1]
          [] b = "strongEm" ->
                [f EXCEPT !.isStrong = ~st.isStrong, !.isEm = ~st.isEm,
                          !.charI = st.charI + 3]
          [] b = "strong" ->
                [f EXCEPT !.isStrong = ~st.isStrong, !.charI = st.charI + 1]
          [] b = "del" ->
                [f EXCEPT !.isDel = ~st.isDel, !.charI = st.charI + 2]
          [] b = "em" ->
                [f EXCEPT !.isEm = ~st.isEm, !.charI = st.charI + 1]
          [] b = "text" ->
                [st EXCEPT !.currentText = Append(st.currentText, c[st.charI]),
                           !.charI = st.charI + 1]

\* One iteration of the while loop
InlineStep(c, st) ==
    LET b == InlineBranch(c, st)
        f == addCurrentText(st)
    IN  CASE b = "code" ->
                [f EXCEPT !.isCode = ~st.isCode, !.charI = st.charI + 1]
          [] b = "strongEm" ->
                [f EXCEPT !.isStrong = ~st.isStrong, !.isEm = ~st.isEm,
                          !.charI = st.charI + 3]
          [] b = "strong" ->
                [f EXCEPT !.isStrong = ~st.isStrong, !.charI = st.charI + 2]
          [] b = "del" ->
                [f EXCEPT !.isDel = ~st.isDel, !.charI = st.charI + 2]
          [] b = "em" ->
                [f EXCEPT !.isEm = ~st.isEm, !.charI = st.charI + 1]
          [] b = "text" ->
                [st EXCEPT !.currentText = Append(st.currentText, c[st.charI]),
                           !.charI = st.charI + 1]

RECURSIVE InlineLoop(_, _)
InlineLoop(c, st) ==
    IF st.charI <= Len(c) THEN InlineLoop(c, InlineStep(c, st)) ELSE st

\* The whole function: the runs returned
parseInlineContent(c) == addCurrentText(InlineLoop(c, InlineStart)).runs

(***************************************************************************)
(* parseInlineContent as a state machine: one loop iteration per step      *)
(***************************************************************************)
InlineState ==
    [charI |-> charI, currentText |-> currentText, isStrong |-> isStrong,
     isEm |-> isEm, isDel |-> isDel, isCode |-> isCode, runs |-> runs]

InlineSet(st) ==
    /\ charI' = st.charI
    /\ currentText' = st.currentText
    /\ isStrong' = st.isStrong
    /\ isEm' = st.isEm
    /\ isDel' = st.isDel
    /\ isCode' = st.isCode
    /\ runs' = st.runs

InlineIterate ==
    /\ InlineSet(InlineStep(content, InlineState))
    /\ UNCHANGED <<content, inlinePc>>
    /\ UNCHANGED <<normVars, callVars, renderVars>>

InlineAt(b) ==
    /\ inlinePc = "scan" /\ charI <= Len(content)
    /\ InlineBranch(content, InlineState) = b

\* if (content[i] === U+0060)
InlineCode ==
    /\ InlineAt("code")
    /\ InlineIterate

\* if (content.slice(i, i + 3) === '***')
InlineStrongEm ==
    /\ InlineAt("strongEm")
    /\ InlineIterate

\* if (content.slice(i, i + 2) === '**')
InlineStrong ==
    /\ InlineAt("strong")
    /\ InlineIterate

\* if (content.slice(i, i + 2) === '~~')
InlineDel ==
    /\ InlineAt("del")
    /\ InlineIterate

\* if (content[i] === '*' && content[i + 1] !== '*')
InlineEm ==
    /\ InlineAt("em")
    /\ InlineIterate

\* currentText += content[i]
InlineText ==
    /\ InlineAt("text")
    /\ InlineIterate

\* addCurrentText(); return runs
InlineReturn ==
    /\ inlinePc = "scan" /\ charI > Len(content)
    /\ InlineSet(addCurrentText(InlineState))
    /\ inlinePc' = "returned"
    /\ UNCHANGED content
    /\ UNCHANGED <<normVars, callVars, renderVars>>

\* The state on entry to the loop
InlineInit ==
    /\ charI = InlineStart.charI
    /\ currentText = InlineStart.currentText
    /\ isStrong = InlineStart.isStrong
    /\ isEm = InlineStart.isEm
    /\ isDel = InlineStart.isDel
    /\ isCode = InlineStart.isCode
    /\ runs = InlineStart.runs

InlineIdle ==
    /\ content = <<>> /\ InlineInit /\ inlinePc = "idle"

\* The state on entry to parseInlineContent(c)
InlineEnter(c) ==
    /\ content = c /\ InlineInit /\ inlinePc = "scan"

(***************************************************************************)
(* Inputs                                                                  *)
(***************************************************************************)
\* The most lines of a text drawn from LinePool
MaxLines == 3
\* The longest span drawn from InlineAlphabet
MaxSpan == 5
\* The longest marker-free text wrapped in a marker
MaxPlain == 2

SeqsUpTo(S, n) == UNION {[1..k -> S] : k \in 0..n}

\* Lines of each kind the loop of preprocessMarkdown tells apart
LinePool ==
    { <<"1", ".", " ", "*", "*", "S", "*", "*">>,                \* main item
      <<" ", "1", "2", ".", "\t", "*", "*", "b", "*", "*", " ">>, \* main item, indented
      <<"1", ".", " ", "S">>,                                    \* numbered, not bold
      <<"-", " ", "a">>,                                         \* dash line
      <<" ", " ", "-", " ", "\t", "b", "\r">>,                   \* dash line, indented
      <<"-", " ", "a", "\r", "b">>,                              \* dash, CR inside
      <<"-", "a">>,                                              \* dash without space
      <<>>,                                                      \* blank
      <<" ", "a">> }                                             \* other text

\* "1. **Step**\n- sub a\n- sub b\n"
TargetedIn ==
    <<"1", ".", " ", "*", "*", "S", "t", "e", "p", "*", "*", "\n",
      "-", " ", "s", "u", "b", " ", "a", "\n",
      "-", " ", "s", "u", "b", " ", "b", "\n">>

\* "1. **Step**\n   - sub a\n   - sub b\n"
TargetedOut ==
    <<"1", ".", " ", "*", "*", "S", "t", "e", "p", "*", "*", "\n",
      " ", " ", " ", "-", " ", "s", "u", "b", " ", "a", "\n",
      " ", " ", " ", "-", " ", "s", "u", "b", " ", "b", "\n">>

NormInputs ==
    {join(ls) : ls \in SeqsUpTo(LinePool, MaxLines) \ {<<>>}} \cup {TargetedIn}

InlineAlphabet == {"*", "~", Backtick, "a"}

\* The inline markers: bold+italic, bold, strikethrough, italic, code
MarkStrongEm == <<"*", "*", "*">>
MarkStrong == <<"*", "*">>
MarkDel == <<"~", "~">>
MarkEm == <<"*">>
MarkCode == <<Backtick>>
Markers == {MarkStrongEm, MarkStrong, MarkDel, MarkEm, MarkCode}

\* Texts without any marker character
PlainTexts == SeqsUpTo({"a", "b", " "}, MaxPlain)

InlineInputs ==
    SeqsUpTo(InlineAlphabet, MaxSpan)
    \cup PlainTexts
    \cup {m \o t \o m : m \in Markers, t \in PlainTexts}
    \cup {m \o t : m \in Markers, t \in PlainTexts}

(***************************************************************************)
(* The tool calls: values, errors and collaborators                        *)
(***************************************************************************)
\* The number of tool calls in flight
NumCalls == 2
Calls == 1..NumCalls

\* JavaScript values of the arguments: a string is a sequence (of characters
\* for text, of segments for a path)
Undefined == [type |-> "undefined", v |-> <<>>]
Str(v) == [type |-> "string", v |-> v]
NumberValue == [type |-> "number", v |-> <<"7">>]

\* !value
Falsy(val) == val.type = "undefined" \/ (val.type = "string" /\ val.v = <<>>)

\* request.params.arguments is optional in a tools/call request
NoArguments ==
    [given |-> FALSE, markdownPath |-> Undefined, content |-> Undefined,
     outputPath |-> Undefined]

PathIn == <<"in", "a.md">>
PathMissing == <<"in", "none.md">>
OutA == <<"out", "a.docx">>
OutB == <<"out", "b.docx">>
OutputPaths == {OutA, OutB}

\* The text of the file at PathIn, and the text passed as content
FileText == <<"1", ".", " ", "*", "*", "S", "*", "*", "\n", "-", " ", "a">>
ContentText == <<"#", " ", "T", "\n", "-", " ", "a">>

\* The arguments of markdown_to_word: none, one or both missing, or both given
MarkdownToWordArguments ==
    {NoArguments} \cup
    {[given |-> TRUE, markdownPath |-> mp, content |-> Undefined, outputPath |-> op] :
        mp \in {Undefined, Str(PathIn)}, op \in {Undefined, Str(OutA)}} \cup
    {[given |-> TRUE, markdownPath |-> Str(mp), content |-> Undefined,
      outputPath |-> Str(op)] :
        mp \in {PathIn, PathMissing}, op \in OutputPaths}

\* The arguments of write_markdown_to_word: none, one or both missing, an
\* empty text, a content that is no string, or both given
WriteMarkdownToWordArguments ==
    {NoArguments} \cup
    {[given |-> TRUE, markdownPath |-> Undefined, content |-> ct, outputPath |-> op] :
        ct \in {Undefined, Str(ContentText)}, op \in {Undefined, Str(OutA)}} \cup
    {[given |-> TRUE, markdownPath |-> Undefined, content |-> ct,
      outputPath |-> Str(OutA)] :
        ct \in {Str(<<>>), NumberValue}} \cup
    {[given |-> TRUE, markdownPath |-> Undefined, content |-> Str(ContentText),
      outputPath |-> Str(op)] :
        op \in OutputPaths}

NoRequest == [name |-> "none", arguments |-> NoArguments]

\* new McpError(code, message); a message is a sequence of its parts
McpError(code, message) ==
    [kind |-> "error", mcp |-> TRUE, code |-> code, message |-> message,
     path |-> <<>>]

\* Any other Error
JsError(message) ==
    [kind |-> "error", mcp |-> FALSE, code |-> "none", message |-> <<message>>,
     path |-> <<>>]

\* { content: [{ type: 'text', text: <text><outputPath> }] }
Success(text, outputPath) ==
    [kind |-> "result", mcp |-> FALSE, code |-> "none", message |-> <<text>>,
     path |-> outputPath]

NoResponse ==
    [kind |-> "none", mcp |-> FALSE, code |-> "none", message |-> <<>>,
     path |-> <<>>]

\* The messages of the string literals (translated)
MsgMissingParams == "missing required parameters"
MsgUnknownTool == "unknown tool: "
MsgDispatcher == "error while processing the document: "

\* Mutant: the catch block wraps every error, protocol errors included
DispatcherCatch_WrapsAll(error) ==
    McpError("InternalError", <<MsgDispatcher>> \o error.message)

\* The catch block of the CallToolRequest handler
DispatcherCatch(error) ==
    IF error.mcp THEN error
    ELSE McpError("InternalError", <<MsgDispatcher>> \o error.message)

FailPrefix(name) ==
    IF name = "markdown_to_word" THEN "failed to process the file: "
    ELSE "failed to create the document: "

SuccessText(name) ==
    IF name = "markdown_to_word"
    THEN "converted the Markdown file to a Word document: "
    ELSE "created the Word document: "

\* Mutant: the catch block drops the message of the error it caught
HandlerCatch_SwallowsCause(name, error) ==
    McpError("InternalError", <<FailPrefix(name)>>)

\* The catch block of handleMarkdownToWord and handleWriteMarkdownToWord
HandlerCatch(name, error) ==
    McpError("InternalError", <<FailPrefix(name)>> \o error.message)

\* The errors of the collaborators
ErrArgsUndefined == JsError("Cannot read properties of undefined")
ErrReadFile == JsError("ENOENT: no such file or directory, open")
ErrNotAString == JsError("markdown.split is not a function")
ErrLexer == JsError("Infinite loop on byte")
ErrPacker == JsError("packer failed")
ErrMkdir == JsError("EACCES: permission denied, mkdir")
ErrOpen == JsError("EACCES: permission denied, open")
ErrWrite == JsError("ENOSPC: no space left on device, write")

NoFailure == [at |-> "none", error |-> NoResponse]

\* marked's options before the first marked.use, and the ones createWordDoc sets
MarkedDefaults == [gfm |-> TRUE, breaks |-> FALSE]
UsedOptions == [gfm |-> TRUE, breaks |-> TRUE]

\* marked.use(options): merged into the global defaults
MarkedUse(current, options) == [current EXCEPT !.gfm = options.gfm,
                                               !.breaks = options.breaks]

\* marked.lexer(text) under the global options: the token tree, uninterpreted
Lexer(text, options) == [lexed |-> text, gfm |-> options.gfm, breaks |-> options.breaks]

\* The loop over the tokens: the blocks, uninterpreted
RenderBlocks(ts) == [rendered |-> ts]

\* new Document({ sections: [{ properties: {}, children }] })
Document(blocks) == [sections |-> <<[children |-> blocks]>>]

NoDoc == Document(RenderBlocks(Lexer(<<>>, [gfm |-> FALSE, breaks |-> FALSE])))

\* Packer.toBuffer(doc) run at the time now: the container holds the document
\* and the time (the library stamps the core properties dcterms:created and
\* dcterms:modified and the archive entries with the current date)
Packed(d, now) == [packed |-> d, stamped |-> now]
NoBuffer == Packed(NoDoc, 0)

\* The latest time a serialization has read the clock at, 0 before the first
LastStamp ==
    CHOOSE t \in {buffer[c].stamped : c \in Calls} :
        \A c \in Calls : buffer[c].stamped <= t

\* path.dirname
dirname(p) == SubSeq(p, 1, Len(p) - 1)

NoFile == [state |-> "absent", text |-> <<>>, data |-> NoBuffer, by |-> 0]
TextFile(t) == [state |-> "complete", text |-> t, data |-> NoBuffer, by |-> 0]
WrittenFile(b, c) == [state |-> "complete", text |-> <<>>, data |-> b, by |-> c]
PartialFile(c) == [state |-> "partial", text |-> <<>>, data |-> NoBuffer, by |-> c]

AllPaths == {PathIn, PathMissing} \cup OutputPaths

\* Mutant: marked.lexer is called before marked.use, under the options the
\* previous call left
createWordDoc_LexerBeforeUse(markdownContent, options, lexerThrows) ==
    IF markdownContent.type # "string"
    THEN [threw |-> TRUE, error |-> ErrNotAString, at |-> "normalize",
          doc |-> NoDoc, steps |-> <<"normalize">>, options |-> options]
    ELSE LET processed == preprocessMarkdown(markdownContent.v)
             used == MarkedUse(options, UsedOptions)
         IN  IF lexerThrows
             THEN [threw |-> TRUE, error |-> ErrLexer, at |-> "tokenize",
                   doc |-> NoDoc, steps |-> <<"normalize", "tokenize">>,
                   options |-> options]
             ELSE [threw |-> FALSE, error |-> NoResponse, at |-> "none",
                   doc |-> Document(RenderBlocks(Lexer(processed, options))),
                   steps |-> <<"normalize", "tokenize", "render">>,
                   options |-> used]

\* createWordDoc(markdownContent), which runs without suspending: the
\* document or the error thrown, the steps run and the tokenizer's options
\* after it.  lexerThrows is the tokenizer's choice to fail.
createWordDoc(markdownContent, options, lexerThrows) ==
    IF markdownContent.type # "string"
    THEN [threw |-> TRUE, error |-> ErrNotAString, at |-> "normalize",
          doc |-> NoDoc, steps |-> <<"normalize">>, options |-> options]
    ELSE LET processed == preprocessMarkdown(markdownContent.v)
             used == MarkedUse(options, UsedOptions)
         IN  IF lexerThrows
             THEN [threw |-> TRUE, error |-> ErrLexer, at |-> "tokenize",
                   doc |-> NoDoc, steps |-> <<"normalize", "tokenize">>,
                   options |-> used]
             ELSE [threw |-> FALSE, error |-> NoResponse, at |-> "none",
                   doc |-> Document(RenderBlocks(Lexer(processed, used))),
                   steps |-> <<"normalize", "tokenize", "render">>,
                   options |-> used]

(***************************************************************************)
(* The tool calls: the CallToolRequest handler and the two tool handlers,  *)
(* one action per run of a call between two awaits                         *)
(***************************************************************************)
\* The call ends: its promise is settled with a result or an error
Finish(c, r) ==
    /\ pc' = [pc EXCEPT ![c] = "done"]
    /\ response' = [response EXCEPT ![c] = r]

\* An error thrown out of a handler reaches the dispatcher's catch
Throw(c, error) == Finish(c, DispatcherCatch(error))

\* The call suspends at an await
Suspend(c, at) ==
    /\ pc' = [pc EXCEPT ![c] = at]
    /\ UNCHANGED response

\* A pipeline step of call c raises `error` inside the handler's try block
Fail(c, at, error) ==
    /\ failure' = [failure EXCEPT ![c] = [at |-> at, error |-> error]]
    /\ Throw(c, HandlerCatch(request[c].name, error))

Invoke(c, step) == steps' = [steps EXCEPT ![c] = Append(@, step)]

\* await this.createWordDoc(markdownContent) in a handler's try block
EnterCreateWordDoc(c, name, markdownContent, lexerThrows) ==
    LET r == createWordDoc(markdownContent, markedOptions, lexerThrows)
    IN  /\ markedOptions' = r.options
        /\ steps' = [steps EXCEPT ![c] = @ \o r.steps]
        /\ IF r.threw
           THEN /\ failure' = [failure EXCEPT ![c] = [at |-> r.at, error |-> r.error]]
                /\ Throw(c, HandlerCatch(name, r.error))
                /\ UNCHANGED doc
           ELSE /\ Suspend(c, "built")
                /\ doc' = [doc EXCEPT ![c] = r.doc]
                /\ UNCHANGED failure

\* case 'markdown_to_word': handleMarkdownToWord up to await fs.readFile
CallMarkdownToWord(c) ==
    /\ pc[c] = "idle"
    /\ \E args \in MarkdownToWordArguments :
        /\ request' = [request EXCEPT
                          ![c] = [name |-> "markdown_to_word", arguments |-> args]]
        /\ IF ~args.given
           THEN Throw(c, ErrArgsUndefined) /\ UNCHANGED steps
           ELSE IF Falsy(args.markdownPath) \/ Falsy(args.outputPath)
           THEN Throw(c, McpError("InvalidParams", <<MsgMissingParams>>))
                /\ UNCHANGED steps
           ELSE Suspend(c, "readFile") /\ Invoke(c, "read")
    /\ UNCHANGED <<doc, buffer, failure, wrote, markedOptions, files, dirs>>
    /\ UNCHANGED <<normVars, inlineVars, renderVars>>

\* case 'write_markdown_to_word': handleWriteMarkdownToWord up to the end
\* of createWordDoc
CallWriteMarkdownToWord(c) ==
    /\ pc[c] = "idle"
    /\ \E args \in WriteMarkdownToWordArguments, lexerThrows \in BOOLEAN :
        /\ request' = [request EXCEPT
                          ![c] = [name |-> "write_markdown_to_word",
                                  arguments |-> args]]
        /\ IF ~args.given
           THEN Throw(c, ErrArgsUndefined)
                /\ UNCHANGED <<steps, doc, failure, markedOptions>>
           ELSE IF Falsy(args.content) \/ Falsy(args.outputPath)
           THEN Throw(c, McpError("InvalidParams", <<MsgMissingParams>>))
                /\ UNCHANGED <<steps, doc, failure, markedOptions>>
           ELSE EnterCreateWordDoc(c, "write_markdown_to_word", args.content,
                                   lexerThrows)
    /\ UNCHANGED <<buffer, wrote, files, dirs>>
    /\ UNCHANGED <<normVars, inlineVars, renderVars>>

\* default: throw new McpError(ErrorCode.MethodNotFound, ...)
CallUnknownTool(c) ==
    /\ pc[c] = "idle"
    /\ request' = [request EXCEPT
                      ![c] = [name |-> "unknown_tool", arguments |-> NoArguments]]
    /\ Throw(c, McpError("MethodNotFound", <<MsgUnknownTool, "unknown_tool">>))
    /\ UNCHANGED <<doc, buffer, steps, failure, wrote, markedOptions, files, dirs>>
    /\ UNCHANGED <<normVars, inlineVars, renderVars>>

\* fs.readFile rejects
ReadFileFails(c) ==
    /\ pc[c] = "readFile"
    /\ files[request[c].arguments.markdownPath.v].state # "complete"
    /\ Fail(c, "read", ErrReadFile)
    /\ UNCHANGED <<request, doc, buffer, steps, wrote, markedOptions, files, dirs>>
    /\ UNCHANGED <<normVars, inlineVars, renderVars>>

\* fs.readFile resolves; the handler runs on to the end of createWordDoc
ReadFileReturns(c) ==
    /\ pc[c] = "readFile"
    /\ files[request[c].arguments.markdownPath.v].state = "complete"
    /\ \E lexerThrows \in BOOLEAN :
        EnterCreateWordDoc(c, "markdown_to_word",
                           Str(files[request[c].arguments.markdownPath.v].text),
                           lexerThrows)
    /\ UNCHANGED <<request, buffer, wrote, files, dirs>>
    /\ UNCHANGED <<normVars, inlineVars, renderVars>>

\* await this.saveWordDocument(doc, outputPath): up to await Packer.toBuffer
SaveWordDocument(c) ==
    /\ pc[c] = "built"
    /\ Invoke(c, "serialize")
    /\ Suspend(c, "toBuffer")
    /\ UNCHANGED <<request, doc, buffer, failure, wrote, markedOptions, files, dirs>>
    /\ UNCHANGED <<normVars, inlineVars, renderVars>>

\* Packer.toBuffer rejects
ToBufferFails(c) ==
    /\ pc[c] = "toBuffer"
    /\ Fail(c, "serialize", ErrPacker)
    /\ UNCHANGED <<request, doc, buffer, steps, wrote, markedOptions, files, dirs>>
    /\ UNCHANGED <<normVars, inlineVars, renderVars>>

\* Packer.toBuffer resolves; on to await fs.mkdir(dir, { recursive: true })
ToBufferReturns(c) ==
    /\ pc[c] = "toBuffer"
    /\ \E now \in {LastStamp, LastStamp + 1} \ {0} :
           buffer' = [buffer EXCEPT ![c] = Packed(doc[c], now)]
    /\ Invoke(c, "mkdir")
    /\ Suspend(c, "mkdir")
    /\ UNCHANGED <<request, doc, failure, wrote, markedOptions, files, dirs>>
    /\ UNCHANGED <<normVars, inlineVars, renderVars>>

\* fs.mkdir rejects
MkdirFails(c) ==
    /\ pc[c] = "mkdir"
    /\ Fail(c, "mkdir", ErrMkdir)
    /\ UNCHANGED <<request, doc, buffer, steps, wrote, markedOptions, files, dirs>>
    /\ UNCHANGED <<normVars, inlineVars, renderVars>>

\* fs.mkdir resolves; on to await fs.writeFile(outputPath, buffer)
MkdirReturns(c) ==
    /\ pc[c] = "mkdir"
    /\ dirs' = dirs \cup {dirname(request[c].arguments.outputPath.v)}
    /\ Invoke(c, "write")
    /\ Suspend(c, "writeFile")
    /\ UNCHANGED <<request, doc, buffer, failure, wrote, markedOptions, files>>
    /\ UNCHANGED <<normVars, inlineVars, renderVars>>

\* fs.writeFile rejects: before the file is opened, or after it was opened
\* (created or truncated) and before all bytes were written
WriteFileFails(c) ==
    /\ pc[c] = "writeFile"
    /\ \/ /\ Fail(c, "write", ErrOpen)
          /\ UNCHANGED <<files, wrote>>
       \/ /\ Fail(c, "write", ErrWrite)
          /\ files' = [files EXCEPT
                          ![request[c].arguments.outputPath.v] = PartialFile(c)]
          /\ wrote' = [wrote EXCEPT ![c] = "partial"]
    /\ UNCHANGED <<request, doc, buffer, steps, markedOptions, dirs>>
    /\ UNCHANGED <<normVars, inlineVars, renderVars>>

\* fs.writeFile has written all the bytes
WriteFileWrites(c) ==
    /\ pc[c] = "writeFile"
    /\ files' = [files EXCEPT
                    ![request[c].arguments.outputPath.v] = WrittenFile(buffer[c], c)]
    /\ wrote' = [wrote EXCEPT ![c] = "full"]
    /\ Suspend(c, "written")
    /\ UNCHANGED <<request, doc, buffer, steps, failure, markedOptions, dirs>>
    /\ UNCHANGED <<normVars, inlineVars, renderVars>>

\* fs.writeFile resolves: the handler returns the success message
ReturnSuccess(c) ==
    /\ pc[c] = "written"
    /\ Finish(c, Success(SuccessText(request[c].name),
                         request[c].arguments.outputPath.v))
    /\ UNCHANGED <<request, doc, buffer, steps, failure, wrote, markedOptions,
                   files, dirs>>
    /\ UNCHANGED <<normVars, inlineVars, renderVars>>

CallsIdle ==
    /\ request = [c \in Calls |-> NoRequest]
    /\ pc = [c \in Calls |-> "idle"]
    /\ doc = [c \in Calls |-> NoDoc]
    /\ buffer = [c \in Calls |-> NoBuffer]
    /\ response = [c \in Calls |-> NoResponse]
    /\ steps = [c \in Calls |-> <<>>]
    /\ failure = [c \in Calls |-> NoFailure]
    /\ wrote = [c \in Calls |-> "nothing"]
    /\ markedOptions = MarkedDefaults
    /\ files = [p \in AllPaths |-> IF p = PathIn THEN TextFile(FileText) ELSE NoFile]
    /\ dirs = {dirname(PathIn)}

(***************************************************************************)
(* The block renderer: styles, blocks and the helpers of createWordDoc     *)
(***************************************************************************)
\* The characters U+2022 (bullet) and U+2500 (box drawing), by code point
Bullet == "U+2022"
BoxLine == "U+2500"

\* STYLES (index.ts:76-94); the typeface names are transliterated
StyleNormal == [font |-> StyleNormalFont, size |-> StyleNormalSize]
StyleH1 == [font |-> "XiaoBiaoSong", size |-> 36]
StyleH2 == [font |-> "KaiTi_GB2312", size |-> 32]
StyleH3 == [font |-> "FangSong_GB2312", size |-> 32, bold |-> TRUE]

\* getHeadingStyle(level)
getHeadingStyle(level) ==
    CASE level = 1 -> StyleH1
      [] level = 2 -> StyleH2
      [] level = 3 -> StyleH3
      [] OTHER -> StyleNormal

\* convertInchesToTwip(x), x given in hundredths of an inch; the library's
\* rounding to twips is not computed
convertInchesToTwip(hundredths) == [unit |-> "inch/100", n |-> hundredths]

\* A length the code writes as a number of twips
Twips(n) == [unit |-> "twip", n |-> n]

\* headingMap[headingToken.depth] || HeadingLevel.HEADING_1
headingMap(depth) ==
    CASE depth = 1 -> "Heading1" [] depth = 2 -> "Heading2"
      [] depth = 3 -> "Heading3" [] depth = 4 -> "Heading4"
      [] depth = 5 -> "Heading5" [] depth = 6 -> "Heading6"
      [] OTHER -> "Heading1"

\* `${index}` for a number index >= 0
RECURSIVE ToDecimal(_)
ToDecimal(n) ==
    LET digit == CHOOSE c \in Digit : DigitValue(c) = n % 10
    IN  IF n < 10 THEN <<digit>> ELSE ToDecimal(n \div 10) \o <<digit>>

\* String.prototype.startsWith
startsWith(s, prefix) ==
    /\ Len(prefix) <= Len(s)
    /\ SubSeq(s, 1, Len(prefix)) = prefix

\* String.prototype.repeat
RECURSIVE repeat(_, _)
repeat(c, n) == IF n = 0 THEN <<>> ELSE <<c>> \o repeat(c, n - 1)

\* case 'heading': the spacer paragraph pushed before a heading of depth 1 or 2
HeadingSpacer(headingLevel) ==
    IF headingLevel = 1
    THEN <<[spacing |-> [before |-> convertInchesToTwip(30)]]>>
    ELSE IF headingLevel = 2
    THEN <<[spacing |-> [before |-> convertInchesToTwip(15),
                         after |-> convertInchesToTwip(15)]]>>
    ELSE <<>>

\* case 'heading': the TextRun of the heading paragraph
HeadingRun(text, style) ==
    IF "bold" \in DOMAIN style
    THEN [text |-> text, font |-> style.font, size |-> style.size,
          color |-> "000000", bold |-> style.bold]
    ELSE [text |-> text, font |-> style.font, size |-> style.size,
          color |-> "000000"]

\* Mutant: the heading text goes through parseInlineContent
HeadingParagraph_ParsesInline(headingToken) ==
    [heading |-> headingMap(headingToken.depth),
     spacing |-> [before |-> IF headingToken.depth = 1
                             THEN convertInchesToTwip(50) ELSE Twips(0),
                  after |-> IF headingToken.depth = 1
                            THEN convertInchesToTwip(30) ELSE Twips(0)],
     children |-> parseInlineContent(headingToken.text)]

\* Mutant: the style is resolved for the depth below
HeadingParagraph_StyleOfDepthBelow(headingToken) ==
    [heading |-> headingMap(headingToken.depth),
     spacing |-> [before |-> IF headingToken.depth = 1
                             THEN convertInchesToTwip(50) ELSE Twips(0),
                  after |-> IF headingToken.depth = 1
                            THEN convertInchesToTwip(30) ELSE Twips(0)],
     children |-> <<HeadingRun(headingToken.text,
                               getHeadingStyle(headingToken.depth - 1))>>]

\* case 'heading': the heading paragraph
HeadingParagraph(headingToken) ==
    [heading |-> headingMap(headingToken.depth),
     spacing |-> [before |-> IF headingToken.depth = 1
                             THEN convertInchesToTwip(50) ELSE Twips(0),
                  after |-> IF headingToken.depth = 1
                            THEN convertInchesToTwip(30) ELSE Twips(0)],
     children |-> <<HeadingRun(headingToken.text,
                               getHeadingStyle(headingToken.depth))>>]

\* Mutant: the paragraph text is put in one run, without parseInlineContent
BodyParagraph_Unparsed(paragraphToken) ==
    [children |-> <<[text |-> paragraphToken.text, font |-> StyleNormalFont,
                     size |-> StyleNormalSize, color |-> "000000",
                     bold |-> FALSE, italics |-> FALSE, strike |-> FALSE]>>,
     spacing |-> [line |-> 560, lineRule |-> "exact"],
     alignment |-> "both",
     indent |-> [firstLine |-> convertInchesToTwip(29)]]

\* case 'paragraph'
BodyParagraph(paragraphToken) ==
    [children |-> parseInlineContent(paragraphToken.text),
     spacing |-> [line |-> 560, lineRule |-> "exact"],
     alignment |-> "both",
     indent |-> [firstLine |-> convertInchesToTwip(29)]]

\* case 'code': codeLines.map(...).flat()
RECURSIVE CodeRuns(_)
CodeRuns(codeLines) ==
    IF codeLines = <<>> THEN <<>>
    ELSE <<[text |-> Head(codeLines), font |-> CodeFont, size |-> CodeSize,
            color |-> "000000"]>>
         \o (IF Len(codeLines) > 1 THEN <<[break |-> 1]>> ELSE <<>>)
         \o CodeRuns(Tail(codeLines))

\* case 'code'
CodeParagraph(codeToken) ==
    [children |-> CodeRuns(split(codeToken.text)),
     spacing |-> [before |-> convertInchesToTwip(20),
                  after |-> convertInchesToTwip(20)],
     alignment |-> "left",
     indent |-> [left |-> convertInchesToTwip(50)]]

\* createTableFromMarkdown: a header cell and a body cell
HeaderCell(cell) ==
    [children |-> <<[children |-> <<[text |-> cell, font |-> StyleNormalFont,
                                      size |-> StyleNormalSize,
                                      color |-> "000000", bold |-> TRUE]>>,
                     alignment |-> "center"]>>,
     verticalAlign |-> "center"]

BodyCell(cell) ==
    [children |-> <<[children |-> <<[text |-> cell, font |-> StyleNormalFont,
                                      size |-> StyleNormalSize,
                                      color |-> "000000"]>>]>>]

\* createTableFromMarkdown(header, rows)
createTableFromMarkdown(header, rows) ==
    [width |-> [size |-> 100, type |-> "pct"],
     borders |-> [b \in {"top", "bottom", "left", "right", "insideHorizontal",
                         "insideVertical"} |->
                     [style |-> "single", size |-> 1, color |-> "000000"]],
     rows |-> <<[children |-> [k \in 1..Len(header) |-> HeaderCell(header[k])]]>>
              \o [r \in 1..Len(rows) |->
                     [children |-> [k \in 1..Len(rows[r]) |-> BodyCell(rows[r][k])]]]]

\* case 'table'
TableBlock(tableToken) ==
    createTableFromMarkdown(
        [k \in 1..Len(tableToken.header) |-> tableToken.header[k].text],
        [r \in 1..Len(tableToken.rows) |->
            [k \in 1..Len(tableToken.rows[r]) |-> tableToken.rows[r][k].text]])

\* createBlockquoteParagraph(text)
createBlockquoteParagraph(text) ==
    [children |-> <<[text |-> text, font |-> StyleNormalFont,
                     size |-> StyleNormalSize, color |-> "000000",
                     italics |-> TRUE]>>,
     indent |-> [left |-> convertInchesToTwip(50),
                 right |-> convertInchesToTwip(50)],
     spacing |-> [line |-> 360, before |-> convertInchesToTwip(10),
                  after |-> convertInchesToTwip(10)],
     border |-> [left |-> [style |-> "single", size |-> 3, color |-> "808080"]]]

\* case 'blockquote': one paragraph per paragraph token among the quote's
\* tokens, none when the token has no tokens
RECURSIVE QuoteParagraphs(_)
QuoteParagraphs(quotes) ==
    IF quotes = <<>> THEN <<>>
    ELSE (IF Head(quotes).type = "paragraph"
          THEN <<createBlockquoteParagraph(Head(quotes).text)>> ELSE <<>>)
         \o QuoteParagraphs(Tail(quotes))

BlockquoteParagraphs(blockquoteToken) ==
    IF "tokens" \in DOMAIN blockquoteToken
    THEN QuoteParagraphs(blockquoteToken.tokens)
    ELSE <<>>

\* case 'hr'
RuleParagraph ==
    [children |-> <<[text |-> repeat(BoxLine, 50), color |-> "000000"]>>,
     alignment |-> "center",
     spacing |-> [before |-> convertInchesToTwip(20),
                  after |-> convertInchesToTwip(20)]]

(***************************************************************************)
(* The list renderer: createListItemParagraph and processNestedList        *)
(***************************************************************************)
\* const bullet = ordered ? `${index}. ` : (the bullet and a space)
ListBullet(ordered, index) ==
    IF ordered THEN ToDecimal(index) \o <<".", " ">> ELSE <<Bullet, " ">>

\* createListItemParagraph(text, level, ordered, index)
createListItemParagraph(text, level, ordered, index) ==
    [children |-> <<[text |-> ListBullet(ordered, index),
                     font |-> StyleNormalFont, size |-> StyleNormalSize,
                     color |-> "000000", bold |-> ordered]>>
                  \o parseInlineContent(trim(text)),
     indent |-> [left |-> convertInchesToTwip(30 * (level + 1)),
                 hanging |-> IF ordered THEN convertInchesToTwip(30)
                             ELSE convertInchesToTwip(20)],
     spacing |-> [line |-> 360, lineRule |-> "exact",
                  before |-> IF level > 0 THEN convertInchesToTwip(2)
                             ELSE convertInchesToTwip(5),
                  after |-> IF level > 0 THEN convertInchesToTwip(2)
                            ELSE convertInchesToTwip(5)]]

\* const ordered = listToken.ordered || false
ListOrdered(listToken) ==
    IF "ordered" \in DOMAIN listToken THEN listToken.ordered ELSE FALSE

\* let index = listToken.start !== undefined ? listToken.start : 1
ListStart(listToken) ==
    IF "start" \in DOMAIN listToken THEN listToken.start ELSE 1

\* const itemText = item.text || ''
ItemText(item) == IF "text" \in DOMAIN item THEN item.text ELSE <<>>

\* displayText (index.ts:338-343): the item's text, without the parent's
\* marker when a nested item's text starts with it
DisplayText(itemText, level, parentBullet) ==
    IF level > 0 /\ parentBullet # <<>> /\ startsWith(itemText, parentBullet)
    THEN trim(SubSeq(itemText, Len(parentBullet) + 1, Len(itemText)))
    ELSE itemText

\* The paragraphs pushed for the item itself (index.ts:334-353): none when
\* its text is blank
ItemParagraphs(item, level, ordered, index, parentBullet) ==
    IF trim(ItemText(item)) # <<>>
    THEN <<createListItemParagraph(DisplayText(ItemText(item), level, parentBullet),
                                   level, ordered, index)>>
    ELSE <<>>

\* Mutant: the marker handed to nested lists is the rendered one for
\* unordered items too
CurrentBullet_Rendered(ordered, index) == ListBullet(ordered, index)

\* const currentBullet = ordered ? `${index}. ` : ''
CurrentBullet(ordered, index) ==
    IF ordered THEN ToDecimal(index) \o <<".", " ">> ELSE <<>>

\* Mutant: the index is not incremented
NextIndex_Stuck(ordered, index) == index

\* if (ordered) index++
NextIndex(ordered, index) == IF ordered THEN index + 1 ELSE index

\* (item as any).tokens, no token when the property is missing
ItemTokens(item) == IF "tokens" \in DOMAIN item THEN item.tokens ELSE <<>>

\* processNestedList(children, listToken, level, parentBullet) as a
\* function: the accumulator after the call
RECURSIVE processNestedList(_, _, _, _)
RECURSIVE ProcessItems(_, _, _, _, _, _)
RECURSIVE ProcessSubTokens(_, _, _, _)
ProcessSubTokens(acc, itemTokens, level, currentBullet) ==
    IF itemTokens = <<>> THEN acc
    ELSE ProcessSubTokens(
             IF Head(itemTokens).type = "list"
             THEN processNestedList(acc, Head(itemTokens), level + 1, currentBullet)
             ELSE acc,
             Tail(itemTokens), level, currentBullet)

ProcessItems(acc, items, level, ordered, index, parentBullet) ==
    IF items = <<>> THEN acc
    ELSE LET item == Head(items)
             own == acc \o ItemParagraphs(item, level, ordered, index, parentBullet)
             nested == ProcessSubTokens(own, ItemTokens(item), level,
                                        CurrentBullet(ordered, index))
         IN  ProcessItems(nested, Tail(items), level, ordered,
                          NextIndex(ordered, index), parentBullet)

processNestedList(acc, listToken, level, parentBullet) ==
    ProcessItems(acc, listToken.items, level, ListOrdered(listToken),
                 ListStart(listToken), parentBullet)

\* The switch of createWordDoc's loop: the blocks one token adds
TokenBlocks(token) ==
    CASE token.type = "heading" ->
             HeadingSpacer(token.depth) \o <<HeadingParagraph(token)>>
      [] token.type = "paragraph" -> <<BodyParagraph(token)>>
      [] token.type = "code" -> <<CodeParagraph(token)>>
      [] token.type = "table" -> <<TableBlock(token)>>
      [] token.type = "list" -> processNestedList(<<>>, token, 0, <<>>)
      [] token.type = "blockquote" -> BlockquoteParagraphs(token)
      [] token.type = "hr" -> <<RuleParagraph>>
      [] OTHER -> <<>>

\* The loop of createWordDoc as a function: the accumulator after the tokens
RECURSIVE RenderTokens(_)
RenderTokens(ts) ==
    IF ts = <<>> THEN <<>>
    ELSE TokenBlocks(Head(ts)) \o RenderTokens(Tail(ts))

(***************************************************************************)
(* marked.lexer on texts made of ATX headings, blank lines and paragraph   *)
(* lines (no other block rule of marked applies to the texts lexed here)   *)
(***************************************************************************)
\* The length of the match of the rule newline, /^(?: *(?:\n|$))+/
RECURSIVE NewlineMatch(_)
NewlineMatch(src) ==
    LET other == {k \in 1..Len(src) : src[k] # " "}
    IN  IF other = {} THEN Len(src)
        ELSE LET first == CHOOSE k \in other : \A m \in other : k <= m
             IN  IF src[first] = "\n"
                 THEN first + NewlineMatch(SubSeq(src, first + 1, Len(src)))
                 ELSE 0

\* The end of the first line of src: the position of its newline, or past the end
LineEnd(src) ==
    LET nl == {k \in 1..Len(src) : src[k] = "\n"}
    IN  IF nl = {} THEN Len(src) + 1
        ELSE CHOOSE k \in nl : \A m \in nl : k <= m

\* The number of # the rule heading, /^(#{1,6})(?=\s|$)(.*)(?:\n+|$)/,
\* matches at the start of src; 0 when it does not match
HeadingHashes(src) ==
    LET n == CHOOSE n \in 0..Len(src) :
                 /\ \A k \in 1..n : src[k] = "#"
                 /\ n = Len(src) \/ src[n + 1] # "#"
    IN  IF n \in 1..6 /\ (n = Len(src) \/ src[n + 1] \in WhiteSpace)
        THEN n ELSE 0

\* src without its leading newlines
RECURSIVE DropNewlines(_)
DropNewlines(src) ==
    IF src # <<>> /\ Head(src) = "\n" THEN DropNewlines(Tail(src)) ELSE src

\* The length of the match of the rule paragraph: the first line and every
\* following line that is not blank and does not start a heading
RECURSIVE ParagraphMatch(_)
ParagraphMatch(src) ==
    LET end == LineEnd(src)
        rest == SubSeq(src, end + 1, Len(src))
    IN  IF /\ end <= Len(src)
           /\ rest # <<>>
           /\ Head(rest) # "\n"
           /\ trim(SubSeq(rest, 1, LineEnd(rest) - 1)) # <<>>
           /\ HeadingHashes(rest) = 0
        THEN end + ParagraphMatch(rest)
        ELSE end - 1

\* The block tokens of src, after the tokens acc
RECURSIVE blockTokens(_, _)
blockTokens(src, acc) ==
    IF src = <<>> THEN acc
    ELSE IF NewlineMatch(src) > 0
    THEN blockTokens(SubSeq(src, NewlineMatch(src) + 1, Len(src)),
                     IF NewlineMatch(src) = 1 /\ acc # <<>>
                     THEN acc ELSE Append(acc, [type |-> "space"]))
    ELSE IF HeadingHashes(src) > 0
    THEN blockTokens(DropNewlines(SubSeq(src, LineEnd(src), Len(src))),
                     Append(acc, [type |-> "heading",
                                  depth |-> HeadingHashes(src),
                                  text |-> trim(SubSeq(src, HeadingHashes(src) + 1,
                                                       LineEnd(src) - 1))]))
    ELSE blockTokens(SubSeq(src, ParagraphMatch(src) + 1, Len(src)),
                     Append(acc, [type |-> "paragraph",
                                  text |-> SubSeq(src, 1, ParagraphMatch(src))]))

\* marked.lexer(src)
lexer(src) == blockTokens(src, <<>>)

(***************************************************************************)
(* createWordDoc's loop over the tokens and processNestedList, step by     *)
(* step                                                                    *)
(***************************************************************************)
\* The token the loop is at, when it is at the top level
RenderAt(kinds) ==
    /\ renderPc = "loop"
    /\ frames = <<>>
    /\ tokenI <= Len(tokens)
    /\ tokens[tokenI].type \in kinds

\* children.push(...blocks); break
RenderPush(blocks) ==
    /\ children' = children \o blocks
    /\ tokenI' = tokenI + 1
    /\ UNCHANGED <<tokens, frames, document, renderPc>>
    /\ UNCHANGED <<normVars, inlineVars, callVars>>

\* The token kinds the switch has a case for
HandledKinds ==
    {"heading", "paragraph", "code", "table", "list", "blockquote", "hr"}

RenderHeading ==
    /\ RenderAt({"heading"})
    /\ RenderPush(HeadingSpacer(tokens[tokenI].depth)
                  \o <<HeadingParagraph(tokens[tokenI])>>)

RenderParagraph ==
    /\ RenderAt({"paragraph"})
    /\ RenderPush(<<BodyParagraph(tokens[tokenI])>>)

RenderCode ==
    /\ RenderAt({"code"})
    /\ RenderPush(<<CodeParagraph(tokens[tokenI])>>)

RenderTable ==
    /\ RenderAt({"table"})
    /\ RenderPush(<<TableBlock(tokens[tokenI])>>)

RenderBlockquote ==
    /\ RenderAt({"blockquote"})
    /\ RenderPush(BlockquoteParagraphs(tokens[tokenI]))

RenderHr ==
    /\ RenderAt({"hr"})
    /\ RenderPush(<<RuleParagraph>>)

\* Mutant: a token of another kind is rendered as an empty paragraph
RenderOther_PushesParagraph ==
    /\ renderPc = "loop"
    /\ frames = <<>>
    /\ tokenI <= Len(tokens)
    /\ tokens[tokenI].type \notin HandledKinds
    /\ RenderPush(<<[children |-> <<>>]>>)

\* A token of a kind the switch has no case for
RenderOther ==
    /\ renderPc = "loop"
    /\ frames = <<>>
    /\ tokenI <= Len(tokens)
    /\ tokens[tokenI].type \notin HandledKinds
    /\ RenderPush(<<>>)

\* The activation of processNestedList(children, listToken, level, parentBullet)
\* on entry: itemI is the position of 'for (const item of listToken.items)',
\* subI the one of 'for (const subToken of itemTokens)', 0 before the item's
\* own paragraph
ListFrame(listToken, level, parentBullet) ==
    [list |-> listToken, level |-> level, parentBullet |-> parentBullet,
     ordered |-> ListOrdered(listToken), index |-> ListStart(listToken),
     itemI |-> 1, subI |-> 0, currentBullet |-> <<>>]

\* The innermost activation, its item and the item's nested tokens
Top == frames[Len(frames)]
TopItem == Top.list.items[Top.itemI]
InList == renderPc = "loop" /\ frames # <<>>
SetTop(f) == [frames EXCEPT ![Len(frames)] = f]

\* case 'list': this.processNestedList(children, listToken)
RenderList ==
    /\ RenderAt({"list"})
    /\ frames' = <<ListFrame(tokens[tokenI], 0, <<>>)>>
    /\ UNCHANGED <<tokens, tokenI, children, document, renderPc>>
    /\ UNCHANGED <<normVars, inlineVars, callVars>>

\* Mutant: the paragraph is put before the accumulated blocks
ListItem_Prepends ==
    /\ InList
    /\ Top.itemI <= Len(Top.list.items)
    /\ Top.subI = 0
    /\ children' = ItemParagraphs(TopItem, Top.level, Top.ordered, Top.index,
                                  Top.parentBullet) \o children
    /\ frames' = SetTop([Top EXCEPT
                            !.currentBullet = CurrentBullet(Top.ordered, Top.index),
                            !.index = NextIndex(Top.ordered, Top.index),
                            !.subI = 1])
    /\ UNCHANGED <<tokens, tokenI, document, renderPc>>
    /\ UNCHANGED <<normVars, inlineVars, callVars>>

\* The item's own part (index.ts:334-359): its paragraph, currentBullet, index++
ListItem ==
    /\ InList
    /\ Top.itemI <= Len(Top.list.items)
    /\ Top.subI = 0
    /\ children' = children \o ItemParagraphs(TopItem, Top.level, Top.ordered,
                                              Top.index, Top.parentBullet)
    /\ frames' = SetTop([Top EXCEPT
                            !.currentBullet = CurrentBullet(Top.ordered, Top.index),
                            !.index = NextIndex(Top.ordered, Top.index),
                            !.subI = 1])
    /\ UNCHANGED <<tokens, tokenI, document, renderPc>>
    /\ UNCHANGED <<normVars, inlineVars, callVars>>

\* A nested token that is a list: the recursive call
ListNested ==
    /\ InList
    /\ Top.itemI <= Len(Top.list.items)
    /\ Top.subI \in 1..Len(ItemTokens(TopItem))
    /\ ItemTokens(TopItem)[Top.subI].type = "list"
    /\ frames' = Append(SetTop([Top EXCEPT !.subI = @ + 1]),
                        ListFrame(ItemTokens(TopItem)[Top.subI], Top.level + 1,
                                  Top.currentBullet))
    /\ UNCHANGED <<tokens, tokenI, children, document, renderPc>>
    /\ UNCHANGED <<normVars, inlineVars, callVars>>

\* A nested token of another kind
ListSubSkip ==
    /\ InList
    /\ Top.itemI <= Len(Top.list.items)
    /\ Top.subI \in 1..Len(ItemTokens(TopItem))
    /\ ItemTokens(TopItem)[Top.subI].type # "list"
    /\ frames' = SetTop([Top EXCEPT !.subI = @ + 1])
    /\ UNCHANGED <<tokens, tokenI, children, document, renderPc>>
    /\ UNCHANGED <<normVars, inlineVars, callVars>>

\* The end of the item's nested tokens: the next item
ListItemDone ==
    /\ InList
    /\ Top.itemI <= Len(Top.list.items)
    /\ Top.subI > Len(ItemTokens(TopItem))
    /\ frames' = SetTop([Top EXCEPT !.itemI = @ + 1, !.subI = 0])
    /\ UNCHANGED <<tokens, tokenI, children, document, renderPc>>
    /\ UNCHANGED <<normVars, inlineVars, callVars>>

\* The end of the items: processNestedList returns to its caller
ListReturn ==
    /\ InList
    /\ Top.itemI > Len(Top.list.items)
    /\ frames' = SubSeq(frames, 1, Len(frames) - 1)
    /\ tokenI' = IF Len(frames) = 1 THEN tokenI + 1 ELSE tokenI
    /\ UNCHANGED <<tokens, children, document, renderPc>>
    /\ UNCHANGED <<normVars, inlineVars, callVars>>

\* Mutant: the blocks are assembled in reverse order
RenderReturn_Reverses ==
    /\ renderPc = "loop"
    /\ frames = <<>>
    /\ tokenI > Len(tokens)
    /\ document' = Document([k \in 1..Len(children) |->
                                children[Len(children) + 1 - k]])
    /\ renderPc' = "returned"
    /\ UNCHANGED <<tokens, tokenI, children, frames>>
    /\ UNCHANGED <<normVars, inlineVars, callVars>>

\* The end of the tokens: return new Document({ sections })
RenderReturn ==
    /\ renderPc = "loop"
    /\ frames = <<>>
    /\ tokenI > Len(tokens)
    /\ document' = Document(children)
    /\ renderPc' = "returned"
    /\ UNCHANGED <<tokens, tokenI, children, frames>>
    /\ UNCHANGED <<normVars, inlineVars, callVars>>

RenderIdle ==
    /\ tokens = <<>> /\ tokenI = 1 /\ children = <<>> /\ frames = <<>>
    /\ document = Document(<<>>) /\ renderPc = "idle"

\* The state after 'const children = []', before the loop over the tokens ts
RenderEnter(ts) ==
    /\ tokens = ts /\ tokenI = 1 /\ children = <<>> /\ frames = <<>>
    /\ document = Document(<<>>) /\ renderPc = "loop"

(***************************************************************************)
(* Inputs of the block renderer                                            *)
(***************************************************************************)
\* The longest token stream, the most items of a generated list and of a
\* generated list of lists
MaxTokens == 2
MaxItems == 3
MaxNested == 2

TextHello == <<"H", "e", "l", "l", "o", " ", "*", "*", "w", "o", "r", "l", "d",
               "*", "*", ".">>
TextTitle == <<"T", "i", "t", "l", "e">>
TextBoldT == <<"*", "*", "T", "*", "*">>

\* Tokens of the kinds the switch handles, and of two it does not
HeadingTokens ==
    {[type |-> "heading", depth |-> d, text |-> t] :
        d \in 1..6, t \in {TextTitle, TextBoldT}}
    \cup {[type |-> "heading", depth |-> 1, text |-> <<>>]}

PlainTokens ==
    {[type |-> "paragraph", text |-> TextHello],
     [type |-> "code", text |-> <<"a", "\n", "b">>],
     [type |-> "table", header |-> <<[text |-> <<"h">>]>>,
      rows |-> <<<<[text |-> <<"c">>]>>>>],
     [type |-> "blockquote",
      tokens |-> <<[type |-> "paragraph", text |-> <<"q">>], [type |-> "space"]>>],
     [type |-> "blockquote"],
     [type |-> "hr"],
     [type |-> "space"],
     [type |-> "html", text |-> <<"<", "b", ">">>]}

\* Items without nested tokens
LeafItems ==
    {[text |-> <<"a">>], [text |-> <<>>], [text |-> <<" ">>],
     [text |-> <<"*", "*", "b", "*", "*">>]}

\* Lists without nested lists: ordered with and without a declared start,
\* and unordered (marked gives an unordered list the start '')
FlatLists ==
    {[type |-> "list", ordered |-> TRUE, start |-> s, items |-> its] :
        s \in {0, 1, 5, 9}, its \in SeqsUpTo(LeafItems, MaxItems)}
    \cup {[type |-> "list", ordered |-> TRUE, items |-> its] :
            its \in SeqsUpTo(LeafItems, MaxItems)}
    \cup {[type |-> "list", ordered |-> FALSE, items |-> its] :
            its \in SeqsUpTo(LeafItems, MaxItems)}

\* A text token, as marked puts before the nested list of an item
TextToken(t) == [type |-> "text", text |-> t]

\* Lists nested in an item: their items echo a marker or do not
InnerLists ==
    {[type |-> "list", ordered |-> TRUE,
      items |-> <<[text |-> <<"a">>], [text |-> <<"1", ".", " ", "a">>]>>],
     [type |-> "list", ordered |-> FALSE,
      items |-> <<[text |-> <<"1", ".", " ", "a">>],
                  [text |-> <<"2", ".", " ", " ", "a">>]>>],
     [type |-> "list", ordered |-> FALSE,
      items |-> <<[text |-> <<Bullet, " ", "a">>]>>],
     [type |-> "list", ordered |-> TRUE, start |-> 3,
      items |-> <<[text |-> <<"x">>,
                   tokens |-> <<TextToken(<<"x">>),
                                [type |-> "list", ordered |-> FALSE,
                                 items |-> <<[text |-> <<"3", ".", " ", "d">>]>>]>>]>>]}

\* Items of the outer list: with one nested list, with two, with none
OuterItems ==
    {[text |-> <<"p">>, tokens |-> <<TextToken(<<"p">>), l>>] : l \in InnerLists}
    \cup {[text |-> <<>>,
           tokens |-> <<[type |-> "list", ordered |-> FALSE,
                         items |-> <<[text |-> <<"1", ".", " ", "a">>]>>]>>],
          [text |-> <<"p">>,
           tokens |-> <<[type |-> "list", ordered |-> TRUE,
                         items |-> <<[text |-> <<"a">>]>>],
                        [type |-> "list", ordered |-> FALSE,
                         items |-> <<[text |-> <<"b">>]>>]>>],
          [text |-> <<"q">>],
          [tokens |-> <<>>]}

NestedLists ==
    {[type |-> "list", ordered |-> o, items |-> its] :
        o \in BOOLEAN, its \in SeqsUpTo(OuterItems, MaxNested) \ {<<>>}}

\* One list of each sort, for the streams of several tokens
StreamLists ==
    {[type |-> "list", ordered |-> TRUE, start |-> 5,
      items |-> <<[text |-> <<"a">>], [text |-> <<"b">>]>>],
     [type |-> "list", ordered |-> FALSE,
      items |-> <<[text |-> <<"p">>,
                   tokens |-> <<TextToken(<<"p">>),
                                [type |-> "list", ordered |-> FALSE,
                                 items |-> <<[text |-> <<"a">>]>>]>>]>>]}

TokenPool == HeadingTokens \cup PlainTokens \cup StreamLists

\* Texts of heading lines, blank lines and paragraph lines
EndToEndText == <<"#", " ">> \o TextTitle \o <<"\n", "\n">> \o TextHello \o <<"\n">>

MarkdownLines ==
    {<<"#", " ">> \o TextTitle, <<"#", "#", " ", "S">>, <<>>, TextHello}

MarkdownTexts ==
    {join(ls) : ls \in SeqsUpTo(MarkdownLines, MaxLines)} \cup {EndToEndText}

\* The token streams createWordDoc's loop is run on
RenderInputs ==
    SeqsUpTo(TokenPool, MaxTokens)
    \cup {<<l>> : l \in FlatLists \cup NestedLists}
    \cup {lexer(preprocessMarkdown(md)) : md \in MarkdownTexts}

(***************************************************************************)
(* Specifications                                                          *)
(***************************************************************************)
Init == NormIdle /\ InlineIdle /\ CallsIdle /\ RenderIdle

Next ==
    \E c \in Calls :
        \/ CallMarkdownToWord(c)
        \/ CallWriteMarkdownToWord(c)
        \/ CallUnknownTool(c)
        \/ ReadFileFails(c)
        \/ ReadFileReturns(c)
        \/ SaveWordDocument(c)
        \/ ToBufferFails(c)
        \/ ToBufferReturns(c)
        \/ MkdirFails(c)
        \/ MkdirReturns(c)
        \/ WriteFileFails(c)
        \/ WriteFileWrites(c)
        \/ ReturnSuccess(c)

Spec == Init /\ [][Next]_vars

InitNorm ==
    (\E md \in NormInputs : NormEnter(md)) /\ InlineIdle /\ CallsIdle /\ RenderIdle

NextNorm ==
    \/ NormMainItem
    \/ NormNestedDash
    \/ NormOtherLine
    \/ NormReturn
    \/ NormAgain

SpecNorm == InitNorm /\ [][NextNorm]_vars

InitInline ==
    NormIdle /\ (\E c \in InlineInputs : InlineEnter(c)) /\ CallsIdle /\ RenderIdle

NextInline ==
    \/ InlineCode
    \/ InlineStrongEm
    \/ InlineStrong
    \/ InlineDel
    \/ InlineEm
    \/ InlineText
    \/ InlineReturn

SpecInline == InitInline /\ [][NextInline]_vars

InitRender ==
    /\ NormIdle /\ InlineIdle /\ CallsIdle
    /\ \E ts \in RenderInputs : RenderEnter(ts)

NextRender ==
    \/ RenderHeading
    \/ RenderParagraph
    \/ RenderCode
    \/ RenderTable
    \/ RenderList
    \/ RenderBlockquote
    \/ RenderHr
    \/ RenderOther
    \/ ListItem
    \/ ListNested
    \/ ListSubSkip
    \/ ListItemDone
    \/ ListReturn
    \/ RenderReturn

SpecRender == InitRender /\ [][NextRender]_vars

(***************************************************************************)
(* Claims about the tool calls (specification Spec)                        *)
(***************************************************************************)
ConversionTools == {"markdown_to_word", "write_markdown_to_word"}

\* A required argument of the request's tool is missing
RequiredMissing(r) ==
    \/ ~r.arguments.given
    \/ r.arguments.outputPath.type = "undefined"
    \/ r.name = "markdown_to_word" /\ r.arguments.markdownPath.type = "undefined"
    \/ r.name = "write_markdown_to_word" /\ r.arguments.content.type = "undefined"

\* C1: a conversion call with a required argument missing fails with
\* InvalidParams, and no pipeline step (read, normalize, tokenize, render,
\* serialize, mkdir, write) is executed for it.
C1_MissingArgumentIsInvalidParams ==
    \A c \in Calls :
        (request[c].name \in ConversionTools /\ RequiredMissing(request[c]))
        => /\ pc[c] = "done"
           /\ response[c].kind = "error"
           /\ response[c].code = "InvalidParams"
           /\ steps[c] = <<>>

\* C2: when the source read, the tokenizer or renderer, the serializer, the
\* directory creation or the write fails, the call ends with an InternalError
\* whose message contains the message of the cause, never with a success.
C2_FailureSurfacesAsInternalError ==
    \A c \in Calls :
        failure[c].at # "none"
        => /\ pc[c] = "done"
           /\ response[c].kind = "error"
           /\ response[c].code = "InternalError"
           /\ \E k \in 1..Len(response[c].message) :
                  response[c].message[k] = failure[c].error.message[1]

\* C2 witness: one call failed at the write and another at the read, and
\* both ended with an InternalError
C2_Witness ==
    \E c, d \in Calls :
        /\ failure[c].at = "write" /\ response[c].code = "InternalError"
        /\ failure[d].at = "read" /\ response[d].code = "InternalError"

\* C3: the serializer and the write are invoked only after the blocks are
\* built; success is returned only after the write has completed; a failure
\* of a step before the write leaves no file written; and a call ends either
\* with the full document written or with no file produced.
C3_FullDocumentOrNoFile ==
    \A c \in Calls :
        /\ \A k \in 1..Len(steps[c]) :
              steps[c][k] \in {"serialize", "write"}
              => \E j \in 1..(k - 1) : steps[c][j] = "render"
        /\ response[c].kind = "result" => wrote[c] = "full"
        /\ (pc[c] = "done"
            /\ failure[c].at \in {"read", "normalize", "tokenize", "serialize", "mkdir"})
           => wrote[c] = "nothing"
        /\ pc[c] = "done" => wrote[c] \in {"full", "nothing"}

\* The markdown text a conversion request converts
SourceText(r) ==
    IF r.name = "markdown_to_word" THEN files[r.arguments.markdownPath.v].text
    ELSE r.arguments.content.v

\* The document createWordDoc builds from each source text when its call is
\* the only one the server runs
AloneDocs ==
    [t \in {FileText, ContentText} |->
        createWordDoc(Str(t), MarkedDefaults, FALSE).doc]

\* The document a request yields when its call is the only one the server runs
AloneDoc(r) == AloneDocs[SourceText(r)]

\* Each call holds, and for calls with distinct output paths writes, exactly
\* the document it would produce when run alone
C4_Isolation ==
    \A c \in Calls :
        /\ pc[c] \in {"built", "toBuffer", "mkdir", "writeFile", "written"}
           => doc[c] = AloneDoc(request[c])
        /\ (wrote[c] = "full"
            /\ \A d \in Calls \ {c} :
                  request[d].arguments.outputPath # request[c].arguments.outputPath)
           => LET file == files[request[c].arguments.outputPath.v]
              IN  /\ file.state = "complete"
                  /\ file.by = c
                  /\ file.data.packed = AloneDoc(request[c])

\* C4 as stated: no call writes state shared between calls, and calls with
\* distinct output paths each write the document they would write alone.
C4_NoSharedStateWritten ==
    [][markedOptions' = markedOptions]_vars /\ []C4_Isolation

\* C4 as amended: the calls do share and write the tokenizer's global
\* options, but every call sets them to the same values (gfm, breaks) in the
\* same run that tokenizes, so calls with distinct output paths each write
\* the document they would write alone.
C4_SharedOptionsSetAlike ==
    [][markedOptions' # markedOptions => markedOptions' = UsedOptions]_vars
    /\ []C4_Isolation

\* C4 witness: two interleaved calls of different tools have both written
\* their documents, to distinct paths
C4_Witness ==
    \E c, d \in Calls :
        /\ request[c].name = "markdown_to_word" /\ wrote[c] = "full"
        /\ request[d].name = "write_markdown_to_word" /\ wrote[d] = "full"
        /\ request[c].arguments.outputPath # request[d].arguments.outputPath
        /\ pc[c] = "written" /\ pc[d] = "written"

(***************************************************************************)
(* Claims about preprocessMarkdown (specification SpecNorm)                *)
(***************************************************************************)
\* The loop is about to process lines[lineI]
NormStepping == normPc = "loop" /\ lineI <= Len(lines)

\* An active item number is set
IsActive == currentMainListItem # Null

\* The text of a dash line: what follows the dash and the white space after it
DashText(line) == trim(Tail(trim(line)))

\* The line is, after trimming, a dash, white space and a text that holds no
\* line terminator
IsDashLine(line) ==
    LET t == trim(line)
    IN  /\ Len(t) >= 3
        /\ t[1] = "-"
        /\ t[2] \in WhiteSpace
        /\ \A k \in 1..Len(DashText(line)) : DashText(line)[k] \notin LineTerminator

ThreeSpaces == <<" ", " ", " ">>

\* The targeted case of the specification
TargetedCase ==
    (normPc \in {"returned", "again"} /\ markdown = TargetedIn)
    => processedMarkdown = TargetedOut

\* C5 as stated: under an active item number a line whose trimmed form is
\* '- <text>' is emitted as that line (or its trimmed form) with three spaces
\* prepended; and the targeted case.
C5_DashLinePrefixed ==
    /\ [][(NormStepping /\ IsActive /\ IsDashLine(lines[lineI]))
          => \/ resultLines' = Append(resultLines, ThreeSpaces \o lines[lineI])
             \/ resultLines' = Append(resultLines, ThreeSpaces \o trim(lines[lineI]))]_vars
    /\ []TargetedCase

\* C5 as amended: under an active item number a dash line is emitted as three
\* spaces, a dash, one space and its text, whatever white space the line had
\* around the dash; and the targeted case.
C5_DashLineRewritten ==
    /\ [][(NormStepping /\ IsActive /\ IsDashLine(lines[lineI]))
          => resultLines' = Append(resultLines,
                                   ThreeSpaces \o <<"-", " ">> \o DashText(lines[lineI]))]_vars
    /\ []TargetedCase

\* C5 witness: an indented dash line with a tab after the dash was rewritten
\* under an active item
C5_Witness ==
    /\ normPc = "returned"
    /\ \E k \in 2..Len(lines) :
        /\ lines[k] = <<" ", " ", "-", " ", "\t", "b", "\r">>
        /\ resultLines[k] = <<" ", " ", " ", "-", " ", "b">>

\* C6: every line that is not a dash line met under an active item number is
\* emitted unchanged at its own position, in the loop and in the text returned.
C6_OtherLinesUnchanged ==
    /\ [][NormStepping
          => /\ Len(resultLines') = lineI
             /\ SubSeq(resultLines', 1, lineI - 1) = resultLines
             /\ ~(IsActive /\ IsDashLine(lines[lineI]))
                => resultLines'[lineI] = lines[lineI]]_vars
    /\ [](normPc \in {"returned", "again"} => split(processedMarkdown) = resultLines)

\* C6 witness: a dash line before any main item, then a main item, then a
\* dash line that was re-indented
C6_Witness ==
    /\ normPc = "returned"
    /\ Len(lines) = 3
    /\ IsDashLine(lines[1]) /\ resultLines[1] = lines[1]
    /\ mainListMatch(trim(lines[2])) # NoMatch /\ resultLines[2] = lines[2]
    /\ resultLines[3] # lines[3]

\* No line of the input matches the main-item pattern
NoMainItem == \A k \in 1..Len(lines) : mainListMatch(trim(lines[k])) = NoMatch

\* C7: on an input without a main-item line, running the normalizer on its
\* own output gives that output again.
C7_IdempotentWithoutMainItem ==
    (normPc = "again" /\ NoMainItem) => reprocessed = processedMarkdown

\* C7 witness: an input with dash lines and no main item was normalized twice
C7_Witness ==
    /\ normPc = "again" /\ NoMainItem
    /\ \E k \in 1..Len(lines) : IsDashLine(lines[k])

(***************************************************************************)
(* Claims about parseInlineContent (specification SpecInline)              *)
(***************************************************************************)
\* C8: no run of the output has an empty text, whatever the markers.
C8_NoEmptyRun == \A k \in 1..Len(runs) : runs[k].text # <<>>

\* C8 witness: a span with adjacent markers and a marker at its end
C8_Witness ==
    /\ inlinePc = "returned"
    /\ content = <<"a", "*", Backtick, "a", Backtick>>
    /\ Len(runs) = 2

MarkerChars == {"*", "~", Backtick}
MarkerFree(c) == \A k \in 1..Len(c) : c[k] \notin MarkerChars

\* Exactly one run, with the text t and no style flag
OnePlainRun(t) ==
    /\ Len(runs) = 1
    /\ runs[1].text = t
    /\ ~runs[1].bold /\ ~runs[1].italics /\ ~runs[1].strike
    /\ runs[1].font # CodeFont

\* C9 as stated: a text without marker characters gives exactly one run,
\* with the text and no style flag.
C9_PlainTextOneRun ==
    (inlinePc = "returned" /\ MarkerFree(content)) => OnePlainRun(content)

\* C9 as amended: a non-empty text without marker characters gives exactly
\* one run, with the text and no style flag (the empty text gives no run).
C9_NonEmptyPlainTextOneRun ==
    (inlinePc = "returned" /\ MarkerFree(content))
    => IF content = <<>> THEN runs = <<>> ELSE OnePlainRun(content)

\* C9 witness: a plain text of two characters was parsed
C9_Witness ==
    /\ inlinePc = "returned"
    /\ content = <<"a", " ">>
    /\ Len(runs) = 1

\* The markers C10 names: bold, italic, bold and italic, code
ClaimMarkers == {MarkStrong, MarkEm, MarkStrongEm, MarkCode}

\* The run of text t carrying exactly the style of marker m
StyledRun(m, t) ==
    [text |-> t,
     font |-> IF m = MarkCode THEN CodeFont ELSE StyleNormalFont,
     size |-> IF m = MarkCode THEN CodeSize ELSE StyleNormalSize,
     color |-> "000000",
     bold |-> m \in {MarkStrong, MarkStrongEm},
     italics |-> m \in {MarkEm, MarkStrongEm},
     strike |-> FALSE]

\* C10 as stated: a marker-free text t wrapped in one marker, or opened by
\* it and never closed, gives exactly one run with text t and that style.
C10_WrappedTextOneRun ==
    inlinePc = "returned"
    => \A m \in ClaimMarkers, t \in PlainTexts :
           content \in {m \o t \o m, m \o t} => runs = <<StyledRun(m, t)>>

\* C10 as amended: the same for a non-empty text t (markers around an empty
\* text give no run at all).
C10_WrappedNonEmptyTextOneRun ==
    inlinePc = "returned"
    => \A m \in ClaimMarkers, t \in PlainTexts :
           content \in {m \o t \o m, m \o t}
           => IF t = <<>> THEN runs = <<>> ELSE runs = <<StyledRun(m, t)>>

\* C10 witness: '***a***' was parsed into one run
C10_Witness ==
    /\ inlinePc = "returned"
    /\ content = MarkStrongEm \o <<"a">> \o MarkStrongEm
    /\ Len(runs) = 1

(***************************************************************************)
(* Claims about the block renderer (specification SpecRender)              *)
(***************************************************************************)
RenderReturned == renderPc = "returned"

\* The stream is one ordered list whose items hold no nested token
OneFlatOrderedList ==
    /\ Len(tokens) = 1
    /\ tokens[1].type = "list"
    /\ ListOrdered(tokens[1])
    /\ \A k \in 1..Len(tokens[1].items) : ItemTokens(tokens[1].items[k]) = <<>>

\* The start value s of a list token: 1 when none is declared
DeclaredStart(l) == IF "start" \in DOMAIN l THEN l.start ELSE 1

\* The marker run of an item paragraph reads as the number n, a dot and a space
IsMarker(paragraph, n) ==
    LET text == paragraph.children[1].text
        digits == SubSeq(text, 1, Len(text) - 2)
    IN  /\ Len(text) >= 3
        /\ SubSeq(text, Len(text) - 1, Len(text)) = <<".", " ">>
        /\ \A k \in 1..Len(digits) : digits[k] \in Digit
        /\ Len(digits) > 1 => digits[1] # "0"
        /\ parseInt(digits) = n

\* The positions of the items whose text is not blank
NonBlankItems(l) ==
    {k \in 1..Len(l.items) : trim(ItemText(l.items[k])) # <<>>}

\* C11 (as stated): an ordered list token with start value s and n items is
\* rendered as n item paragraphs whose marker runs are s, s+1, ..., s+n-1,
\* each followed by a dot and a space, in item order.
C11_OneMarkedParagraphPerItem ==
    (RenderReturned /\ OneFlatOrderedList) =>
        /\ Len(children) = Len(tokens[1].items)
        /\ \A k \in 1..Len(tokens[1].items) :
               k <= Len(children)
               /\ IsMarker(children[k], DeclaredStart(tokens[1]) + k - 1)

\* C11 (amended): every item whose text is not blank is rendered as one item
\* paragraph, in item order, and the paragraph of the k-th item has the
\* marker s+k-1; an item with blank text is rendered as no paragraph and
\* still uses up its number.
C11_MarkedParagraphPerNonBlankItem ==
    (RenderReturned /\ OneFlatOrderedList) =>
        LET l == tokens[1]
            rank(k) == Cardinality({m \in NonBlankItems(l) : m <= k})
        IN  /\ Len(children) = Cardinality(NonBlankItems(l))
            /\ \A k \in NonBlankItems(l) :
                   IsMarker(children[rank(k)], DeclaredStart(l) + k - 1)

\* C11 witness: start 5 and three items of which the second is blank have
\* been rendered as the markers 5 and 7
C11_Witness ==
    /\ RenderReturned /\ OneFlatOrderedList
    /\ DeclaredStart(tokens[1]) = 5
    /\ Len(tokens[1].items) = 3
    /\ NonBlankItems(tokens[1]) = {1, 3}
    /\ Len(children) = 2
    /\ children[1].children[1].text = <<"5", ".", " ">>
    /\ children[2].children[1].text = <<"7", ".", " ">>

\* The tokens of the end-to-end example, "# Title\n\nHello **world**.\n"
EndToEndTokens == lexer(preprocessMarkdown(EndToEndText))
EndToEndCase == RenderReturned /\ tokens = EndToEndTokens

\* A heading paragraph whose run has the typeface and size of the title style
IsTitleParagraph(block) ==
    /\ "heading" \in DOMAIN block
    /\ Len(block.children) = 1
    /\ block.children[1].text = TextTitle
    /\ block.children[1].font = StyleH1.font
    /\ block.children[1].size = StyleH1.size

\* A body paragraph whose second run is bold with the text 'world'
IsHelloWorldParagraph(block) ==
    /\ "heading" \notin DOMAIN block
    /\ "children" \in DOMAIN block
    /\ Len(block.children) >= 2
    /\ block.children[2].bold
    /\ block.children[2].text = <<"w", "o", "r", "l", "d">>

\* A paragraph without runs
IsSpacer(block) == DOMAIN block = {"spacing"}

\* C12 (as stated): converting "# Title\n\nHello **world**.\n" produces
\* exactly two blocks, a title-styled heading paragraph and then a body
\* paragraph whose second run is bold with the text 'world'.
C12_EndToEndTwoBlocks ==
    EndToEndCase =>
        /\ Len(children) = 2
        /\ IsTitleParagraph(children[1])
        /\ IsHelloWorldParagraph(children[2])

\* C12 (amended): the conversion produces exactly three blocks, a blank
\* spacer paragraph, the title-styled heading paragraph and then the body
\* paragraph whose second run is bold with the text 'world'.
C12_EndToEndThreeBlocks ==
    EndToEndCase =>
        /\ Len(children) = 3
        /\ IsSpacer(children[1])
        /\ IsTitleParagraph(children[2])
        /\ IsHelloWorldParagraph(children[3])
        /\ document.sections[1].children = children

\* C12 witness: the example has been converted, and its body paragraph has
\* the three runs 'Hello ', 'world' and '.'
C12_Witness ==
    /\ EndToEndCase
    /\ Len(EndToEndTokens) = 2
    /\ Len(children[3].children) = 3
    /\ children[3].children[3].text = <<".">>

\* The tokens of the stream whose kind the switch handles
HandledTokens == SelectSeq(tokens, LAMBDA t : t.type \in HandledKinds)

\* C13: a token of a kind other than heading, paragraph, code, table, list,
\* blockquote and horizontal rule adds no block and raises no error (the
\* loop goes on to the next token), and the blocks of the stream are those of
\* the stream without such tokens.
C13_OtherKindsSkipped ==
    /\ RenderReturned => children = RenderTokens(HandledTokens)
    /\ (renderPc = "loop" /\ frames = <<>>) =>
           /\ tokenI \in 1..(Len(tokens) + 1)
           /\ \A k \in 1..(tokenI - 1) :
                  tokens[k].type \notin HandledKinds =>
                      children = RenderTokens(SubSeq(tokens, 1, k - 1))
                                 \o RenderTokens(SubSeq(tokens, k + 1, tokenI - 1))

\* C13 witness: a stream of an html token and a paragraph has been rendered
\* as the paragraph alone
C13_Witness ==
    /\ RenderReturned
    /\ Len(tokens) = 2
    /\ tokens[1].type = "html"
    /\ tokens[2].type = "paragraph"
    /\ children = <<BodyParagraph(tokens[2])>>

\* C14: the document handed to the serializer has exactly one section, whose
\* children are the blocks rendered for the tokens in token-stream order:
\* the blocks of an earlier token precede those of a later one, none is
\* dropped, duplicated or reordered at assembly.
C14_OneSectionInTokenOrder ==
    /\ (renderPc = "loop" /\ frames = <<>>) =>
           children = RenderTokens(SubSeq(tokens, 1, tokenI - 1))
    /\ RenderReturned =>
           /\ Len(document.sections) = 1
           /\ Len(document.sections[1].children) = Len(RenderTokens(tokens))
           /\ \A k \in 1..Len(tokens) :
                  SubSeq(document.sections[1].children,
                         Len(RenderTokens(SubSeq(tokens, 1, k - 1))) + 1,
                         Len(RenderTokens(SubSeq(tokens, 1, k))))
                  = TokenBlocks(tokens[k])

\* C14 witness: a document of a heading with its spacer followed by a list
\* of two items has been assembled
C14_Witness ==
    /\ RenderReturned
    /\ Len(tokens) = 2
    /\ tokens[1].type = "heading" /\ tokens[1].depth = 2
    /\ tokens[2].type = "list" /\ Len(tokens[2].items) = 2
    /\ Len(document.sections[1].children) = 4

\* The token before the loop's position is a heading that has been rendered
HeadingRendered ==
    /\ renderPc \in {"loop", "returned"}
    /\ frames = <<>>
    /\ tokenI > 1
    /\ tokens[tokenI - 1].type = "heading"

\* The run carries the typeface, the size and (when the style has one) the
\* weight of the style
CarriesStyle(run, style) ==
    /\ run.font = style.font
    /\ run.size = style.size
    /\ ("bold" \in DOMAIN run) = ("bold" \in DOMAIN style)
    /\ "bold" \in DOMAIN style => run.bold = style.bold

\* C15: heading style resolution maps depth 1 to the title style, depth 2 to
\* the section style, depth 3 to the bold-body style and every depth of 4 or
\* more to the body style, and the run of the heading paragraph carries the
\* typeface, size and weight of the resolved style.
C15_HeadingStyleByDepth ==
    HeadingRendered =>
        LET depth == tokens[tokenI - 1].depth
            run == children[Len(children)].children[1]
        IN  /\ depth = 1 => CarriesStyle(run, StyleH1)
            /\ depth = 2 => CarriesStyle(run, StyleH2)
            /\ depth = 3 => CarriesStyle(run, StyleH3) /\ run.bold
            /\ depth >= 4 => CarriesStyle(run, StyleNormal)

\* C15 witness: a depth-3 heading and a depth-6 heading have been rendered,
\* the first in bold, the second in the body style without a weight
C15_Witness ==
    /\ RenderReturned
    /\ Len(tokens) = 2
    /\ tokens[1].type = "heading" /\ tokens[1].depth = 3
    /\ tokens[2].type = "heading" /\ tokens[2].depth = 6
    /\ Len(children) = 2
    /\ children[1].children[1].bold
    /\ children[2].children[1].font = StyleNormalFont
    /\ "bold" \notin DOMAIN children[2].children[1]

(***************************************************************************)
(* Claims about repeated conversions (specification Spec)                  *)
(***************************************************************************)
\* Two calls that have both written the document of the same markdown text
ConvertedTwice(c, d) ==
    /\ c # d
    /\ request[c].name \in ConversionTools
    /\ request[d].name \in ConversionTools
    /\ wrote[c] = "full"
    /\ wrote[d] = "full"
    /\ SourceText(request[c]) = SourceText(request[d])

\* C16: converting the same markdown input twice produces identical output:
\* the same document (same blocks, same order, same runs) and, with no
\* timestamp or other nondeterminism, byte-identical serialized documents.
C16_SameInputSameBytes ==
    \A c, d \in Calls :
        ConvertedTwice(c, d) =>
            /\ doc[c] = doc[d]
            /\ buffer[c] = buffer[d]

(***************************************************************************)
(* Claims about the list renderer (specification SpecRender)               *)
(***************************************************************************)
\* The items of a list in pre-order, each with its depth: an item, then the
\* items of every list nested in it, then its next sibling; an item with
\* blank text has no paragraph and is left out
RECURSIVE PreOrder(_, _)
RECURSIVE PreOrderOfItems(_, _)
RECURSIVE PreOrderOfNested(_, _)
PreOrder(l, depth) == PreOrderOfItems(l.items, depth)

PreOrderOfItems(items, depth) ==
    IF items = <<>> THEN <<>>
    ELSE (IF trim(ItemText(Head(items))) # <<>>
          THEN <<[text |-> ItemText(Head(items)), depth |-> depth]>> ELSE <<>>)
         \o PreOrderOfNested(ItemTokens(Head(items)), depth)
         \o PreOrderOfItems(Tail(items), depth)

PreOrderOfNested(ts, depth) ==
    IF ts = <<>> THEN <<>>
    ELSE (IF Head(ts).type = "list" THEN PreOrder(Head(ts), depth + 1) ELSE <<>>)
         \o PreOrderOfNested(Tail(ts), depth)

\* The texts of the runs after the marker run, joined
RECURSIVE JoinedTexts(_)
JoinedTexts(rs) ==
    IF rs = <<>> THEN <<>> ELSE Head(rs).text \o JoinedTexts(Tail(rs))

\* The paragraph is the one of the item: indented for the item's depth, and
\* showing the end of the item's text (all of it but a stripped marker)
IsParagraphOf(paragraph, item) ==
    LET shown == JoinedTexts(Tail(paragraph.children))
        text == SelectSeq(trim(item.text), LAMBDA ch : ch \notin MarkerChars)
    IN  /\ paragraph.indent.left = convertInchesToTwip(30 * (item.depth + 1))
        /\ Len(shown) \in 1..Len(text)
        /\ shown = SubSeq(text, Len(text) - Len(shown) + 1, Len(text))

\* The list token before the loop's position has been rendered
ListRendered ==
    /\ renderPc = "loop"
    /\ frames = <<>>
    /\ tokenI > 1
    /\ tokens[tokenI - 1].type = "list"

\* C17: the list renderer appends paragraphs to the accumulator in pre-order
\* of the item tree: an item's own paragraph, then the paragraphs of every
\* list nested in it (at depth+1), then the paragraph of its next sibling;
\* the paragraphs that were in the accumulator before are left in place.
C17_PreOrderAppend ==
    /\ ListRendered =>
           LET before == RenderTokens(SubSeq(tokens, 1, tokenI - 2))
               added == SubSeq(children, Len(before) + 1, Len(children))
               order == PreOrder(tokens[tokenI - 1], 0)
           IN  /\ SubSeq(children, 1, Len(before)) = before
               /\ Len(added) = Len(order)
               /\ \A k \in 1..Len(order) : IsParagraphOf(added[k], order[k])
    /\ (renderPc = "loop" /\ frames # <<>>) =>
           LET before == RenderTokens(SubSeq(tokens, 1, tokenI - 1))
               order == PreOrder(tokens[tokenI], 0)
           IN  /\ Len(children) \in Len(before)..(Len(before) + Len(order))
               /\ SubSeq(children, 1, Len(before)) = before
               /\ \A k \in 1..(Len(children) - Len(before)) :
                      IsParagraphOf(children[Len(before) + k], order[k])

\* C17 witness: a list of two items has been rendered whose first item holds
\* a list which holds a list: four paragraphs, at the depths 0, 1, 2, 0
C17_Witness ==
    /\ ListRendered
    /\ Len(frames) = 0
    /\ Len(tokens) = 1
    /\ Len(tokens[1].items) = 2
    /\ Len(children) = 4
    /\ children[1].indent.left.n = 30
    /\ children[2].indent.left.n = 60
    /\ children[3].indent.left.n = 90
    /\ children[4].indent.left.n = 30

\* The marker text rendered for the item an activation of the list renderer
\* is at, once the item's own part is done (the index has moved on by then)
RenderedMarker(frame) ==
    IF frame.ordered THEN ListBullet(TRUE, frame.index - 1)
    ELSE ListBullet(FALSE, frame.index)

\* The number marker of that item, and no text when its list is unordered
NumberMarker(frame) ==
    IF frame.ordered THEN RenderedMarker(frame) ELSE <<>>

\* The step that renders the own paragraph of an item with non-blank text
ItemStep ==
    /\ InList
    /\ Top.subI = 0
    /\ Top.itemI <= Len(Top.list.items)
    /\ trim(ItemText(TopItem)) # <<>>
    /\ Len(frames') = Len(frames)
    /\ frames'[Len(frames)].subI = 1

\* The step that enters a list nested in the item
NestedStep == InList /\ Len(frames') = Len(frames) + 1

\* The paragraph the step has appended shows the item's raw text, without the
\* leading marker exactly when the item is nested and its text starts with it
ShowsTextLess(marker) ==
    LET raw == ItemText(TopItem)
        removed == Top.level > 0 /\ marker # <<>> /\ startsWith(raw, marker)
        shown == IF removed THEN SubSeq(raw, Len(marker) + 1, Len(raw)) ELSE raw
    IN  /\ Len(children') = Len(children) + 1
        /\ Tail(children'[Len(children')].children) = parseInlineContent(trim(shown))

\* C18 (as stated): on recursing into a list nested in an item the renderer
\* passes that item's rendered marker text, and a nested item's displayed
\* text has a leading marker removed if and only if its depth is greater
\* than 0 and its raw text starts with the rendered marker text of its
\* parent item.
C18_StripsRenderedMarker ==
    [][/\ NestedStep => frames'[Len(frames')].parentBullet = RenderedMarker(Top)
       /\ ItemStep =>
              ShowsTextLess(IF Len(frames) > 1
                            THEN RenderedMarker(frames[Len(frames) - 1])
                            ELSE <<>>)]_vars

\* C18 (amended): the renderer passes the item's number marker when the
\* item's list is ordered and the empty text when it is unordered, and a
\* nested item's displayed text has a leading marker removed if and only if
\* its depth is greater than 0, its parent's list is ordered and its raw
\* text starts with the number marker of its parent item.
C18_StripsNumberMarker ==
    [][/\ NestedStep => frames'[Len(frames')].parentBullet = NumberMarker(Top)
       /\ ItemStep =>
              ShowsTextLess(IF Len(frames) > 1
                            THEN NumberMarker(frames[Len(frames) - 1])
                            ELSE <<>>)]_vars

\* C18 witness: under the first item of an ordered list, a nested item with
\* the raw text '1. a' has been rendered as 'a'; the nested list's second
\* paragraph is being awaited
C18_Witness ==
    /\ InList
    /\ Len(frames) = 2
    /\ frames[1].ordered
    /\ Top.parentBullet = <<"1", ".", " ">>
    /\ Top.subI = 1
    /\ ItemText(TopItem) = <<"1", ".", " ", "a">>
    /\ Len(children[Len(children)].children) = 2
    /\ children[Len(children)].children[2].text = <<"a">>

\* The step that renders a heading token
HeadingStep == RenderAt({"heading"}) /\ tokenI' = tokenI + 1

\* C19: a heading token contributes one blank spacer paragraph and then the
\* heading paragraph when its depth is 1 or 2, and only the heading paragraph
\* when its depth is 3 or more; the heading paragraph has exactly one run,
\* whose text is the heading text with no inline-marker parsing applied.
C19_SpacerThenHeading ==
    [][HeadingStep =>
          LET token == tokens[tokenI]
              added == SubSeq(children', Len(children) + 1, Len(children'))
              paragraph == added[Len(added)]
          IN  /\ SubSeq(children', 1, Len(children)) = children
              /\ Len(added) = IF token.depth \in {1, 2} THEN 2 ELSE 1
              /\ token.depth \in {1, 2} => IsSpacer(added[1])
              /\ "heading" \in DOMAIN paragraph
              /\ Len(paragraph.children) = 1
              /\ paragraph.children[1].text = token.text]_vars

\* C19 witness: a depth-2 heading with the text '**T**' has been rendered as
\* a spacer and a heading paragraph of one run with that text
C19_Witness ==
    /\ HeadingRendered
    /\ tokens[tokenI - 1].depth = 2
    /\ tokens[tokenI - 1].text = TextBoldT
    /\ Len(children) = 2
    /\ IsSpacer(children[1])
    /\ children[2].children = <<HeadingRun(TextBoldT, StyleH2)>>

(***************************************************************************)
(* Claims about the active item number (specification SpecNorm)            *)
(***************************************************************************)
\* The line is, after trimming, a main-item line
IsMainItemLine(line) == mainListMatch(trim(line)) # NoMatch

\* The number a main-item line sets
MainItemNumber(line) == parseInt(mainListMatch(trim(line)))

\* C20: the active item number, once set by a main-item line, is never
\* cleared for the rest of the text: blank lines and all other lines leave it
\* unchanged and only a later main-item line replaces it, so every dash line
\* after the first main-item line is re-indented, also when blank lines or
\* unrelated lines lie between.
C20_ItemNumberNeverCleared ==
    /\ [][NormStepping =>
             /\ IsActive => IsActive'
             /\ IsMainItemLine(lines[lineI])
                    => currentMainListItem' = <<MainItemNumber(lines[lineI])>>
             /\ ~IsMainItemLine(lines[lineI])
                    => currentMainListItem' = currentMainListItem]_vars
    /\ [](normPc = "returned" =>
             \A k \in 1..Len(lines) :
                 (IsDashLine(lines[k])
                  /\ \E j \in 1..(k - 1) : IsMainItemLine(lines[j]))
                 => resultLines[k] = ThreeSpaces \o <<"-", " ">> \o DashText(lines[k]))

\* C20 witness: a dash line that follows a main-item line and a blank line
\* has been re-indented
C20_Witness ==
    /\ normPc = "returned"
    /\ Len(lines) = 3
    /\ IsMainItemLine(lines[1])
    /\ lines[2] = <<>>
    /\ lines[3] = <<"-", " ", "a">>
    /\ resultLines[3] = <<" ", " ", " ", "-", " ", "a">>
    /\ IsActive

(***************************************************************************)
(* Claims about normalizing twice (specification SpecNorm)                 *)
(***************************************************************************)
\* Some line of the input matches the main-item pattern
HasMainItem == \E k \in 1..Len(lines) : IsMainItemLine(lines[k])

\* Line k of the input is a dash line met under an active item number
DashUnderItem(k) ==
    /\ IsDashLine(lines[k])
    /\ \E j \in 1..(k - 1) : IsMainItemLine(lines[j])

\* Three spaces, a dash, one space and the text of the dash line
CanonicalDashLine(line) == ThreeSpaces \o <<"-", " ">> \o DashText(line)

\* C21: the normalizer is idempotent also on inputs with main-item lines: a
\* dash line under an active item comes out as three spaces, a dash, one space
\* and its text, whatever its indentation was; normalizing the normalized text
\* again changes no line; and the output has as many lines as the input.
C21_IdempotentWithMainItems ==
    /\ normPc \in {"returned", "again"} =>
          /\ Len(split(processedMarkdown)) = Len(split(markdown))
          /\ \A k \in 1..Len(lines) :
                DashUnderItem(k) =>
                    split(processedMarkdown)[k] = CanonicalDashLine(lines[k])
    /\ normPc = "again" =>
          /\ Len(split(reprocessed)) = Len(split(processedMarkdown))
          /\ \A k \in 1..Len(split(processedMarkdown)) :
                split(reprocessed)[k] = split(processedMarkdown)[k]
          /\ reprocessed = processedMarkdown

\* C21 witness: an input with a main-item line and, under it, a dash line
\* that was not in canonical form has been normalized twice
C21_Witness ==
    /\ normPc = "again" /\ HasMainItem
    /\ \E k \in 1..Len(lines) :
          /\ DashUnderItem(k)
          /\ lines[k] # CanonicalDashLine(lines[k])
          /\ split(reprocessed)[k] = CanonicalDashLine(lines[k])

(***************************************************************************)
(* Claims about the dispatcher's errors (specification Spec)               *)
(***************************************************************************)
ProtocolErrorCodes == {"MethodNotFound", "InvalidParams", "InternalError"}

\* The call has ended with an error
Failed(c) == pc[c] = "done" /\ response[c].kind = "error"

\* A required argument of the call is undefined or empty, in an arguments
\* object that was given: the handler throws InvalidParams itself
HandlerRejects(c) ==
    /\ request[c].name \in ConversionTools
    /\ request[c].arguments.given
    /\ \/ Falsy(request[c].arguments.outputPath)
       \/ request[c].name = "markdown_to_word"
          /\ Falsy(request[c].arguments.markdownPath)
       \/ request[c].name = "write_markdown_to_word"
          /\ Falsy(request[c].arguments.content)

\* A pipeline step failed: the handler's catch throws InternalError itself
HandlerWraps(c) == failure[c].at # "none"

\* The handler threw an error that is no protocol error: the arguments object
\* is absent and reading a property of it throws
HandlerThrowsOther(c) ==
    request[c].name \in ConversionTools /\ ~request[c].arguments.given

\* C22: every failure leaves the dispatcher as exactly one protocol error: a
\* tool name other than the two conversion operations gives MethodNotFound; a
\* protocol error raised by a handler (InvalidParams, InternalError) leaves
\* with its code and message unchanged; any other thrown error leaves as
\* InternalError; and no failure is turned into a success result.
C22_FailureClassified ==
    \A c \in Calls :
        /\ Failed(c) =>
              /\ response[c].mcp /\ response[c].code \in ProtocolErrorCodes
              /\ response[c].code = "MethodNotFound"
                    <=> request[c].name \notin ConversionTools
              /\ HandlerRejects(c) =>
                    response[c] = McpError("InvalidParams", <<MsgMissingParams>>)
              /\ HandlerWraps(c) =>
                    /\ response[c].code = "InternalError"
                    /\ response[c].message =
                           <<FailPrefix(request[c].name)>> \o failure[c].error.message
              /\ HandlerThrowsOther(c) =>
                    /\ response[c].code = "InternalError"
                    /\ response[c].message = <<MsgDispatcher>> \o ErrArgsUndefined.message
              /\ HandlerRejects(c) \/ HandlerWraps(c) \/ HandlerThrowsOther(c)
                    \/ request[c].name \notin ConversionTools
        /\ (pc[c] = "done" /\ request[c].name \notin ConversionTools) => Failed(c)
        /\ (pc[c] = "done" /\ (HandlerRejects(c) \/ HandlerWraps(c)
                               \/ HandlerThrowsOther(c))) => Failed(c)
        /\ response[c].kind = "result" =>
              /\ pc[c] = "done" /\ wrote[c] = "full"
              /\ ~HandlerRejects(c) /\ ~HandlerWraps(c) /\ ~HandlerThrowsOther(c)

\* C22 witness: an unknown tool ended with MethodNotFound while a conversion
\* call without an arguments object ended with the dispatcher's InternalError
C22_Witness ==
    \E c, d \in Calls :
        /\ Failed(c) /\ request[c].name \notin ConversionTools
        /\ response[c].code = "MethodNotFound"
        /\ Failed(d) /\ HandlerThrowsOther(d)
        /\ response[d].code = "InternalError"
        /\ response[d].message[1] = MsgDispatcher

====
